---- MODULE Spec2Model ----
(***************************************************************************)
(* Model of the rafx bindings generator: the AST ingestion engine of       *)
(* bindings/gen_ast.py (ApiModule, ClangAstParser) and the name            *)
(* arbitration of bindings/gen_rs.py (RustGenerator.preprocess).           *)
(*                                                                         *)
(* AST nodes are the JSON dictionaries of the clang dump: records whose    *)
(* fields are optional, read with Has/Get as the code reads them with      *)
(* `in` and dict.get.  Python strings are TLA+ strings; Python None is the *)
(* string None (no input contains it), and an absent integer is NoneInt.   *)
(***************************************************************************)
EXTENDS Integers, Sequences, FiniteSets, TLC

VARIABLES
    header_filename,  \* ClangAstParser.header_filename
    enums,            \* ApiModule.enums
    enum_map,         \* ApiModule.enum_map
    structs_map,      \* ApiModule.structs_map
    functions,        \* ApiModule.functions
    typedefs,         \* ApiModule.typedefs
    processed_ids,    \* ClangAstParser.processed_ids
    comment,          \* parse: the pending documentation comment
    last_typedef,     \* parse: last_typedef[0]
    node,             \* parse: the loop variable, the node last taken from root
    root,             \* parse: the nodes of root the loop has not taken yet
    handle_types,     \* RustGenerator.handle_types
    union_types,      \* RustGenerator.union_types
    name_map,         \* RustGenerator.name_map
    used_safe_names,  \* preprocess: used_safe_names
    output,           \* RustGenerator.output: the lines emitted
    pos,              \* parse: how many nodes of root the loop has taken
    pc                \* position of the run

vars == <<header_filename, enums, enum_map, structs_map, functions, typedefs,
          processed_ids, comment, last_typedef, node, root,
          handle_types, union_types, name_map, used_safe_names, output, pos, pc>>

----------------------------------------------------------------------------
(* Python values *)

None == "<None>"
NoneInt == -1

Has(d, k) == k \in DOMAIN d
Get(d, k, default) == IF k \in DOMAIN d THEN d[k] ELSE default

Max(a, b) == IF a >= b THEN a ELSE b

----------------------------------------------------------------------------
(* Python str operations, character by character *)

CharAt(s, i) == IF 1 <= i /\ i <= Len(s) THEN SubSeq(s, i, i) ELSE ""

StartsWith(s, p) == Len(p) <= Len(s) /\ SubSeq(s, 1, Len(p)) = p

EndsWith(s, p) == Len(p) <= Len(s) /\ SubSeq(s, Len(s) - Len(p) + 1, Len(s)) = p

Contains(s, p) == \E i \in 1..(Len(s) - Len(p) + 1) : SubSeq(s, i, i + Len(p) - 1) = p

\* str.find: the first index (1-based) of p in s, 0 when absent
Find(s, p) ==
    IF Contains(s, p)
    THEN CHOOSE i \in 1..(Len(s) - Len(p) + 1) :
            /\ SubSeq(s, i, i + Len(p) - 1) = p
            /\ \A j \in 1..(i - 1) : SubSeq(s, j, j + Len(p) - 1) # p
    ELSE 0

\* str.replace(old, new), old not empty: every non-overlapping occurrence, left to right
RECURSIVE Replace(_, _, _)
Replace(s, old, new) ==
    IF Len(s) < Len(old) THEN s
    ELSE IF StartsWith(s, old)
         THEN new \o Replace(SubSeq(s, Len(old) + 1, Len(s)), old, new)
         ELSE CharAt(s, 1) \o Replace(SubSeq(s, 2, Len(s)), old, new)

UpperChars == "ABCDEFGHIJKLMNOPQRSTUVWXYZ"
LowerChars == "abcdefghijklmnopqrstuvwxyz"

LowerChar(c) ==
    IF Contains(UpperChars, c) /\ Len(c) = 1
    THEN CharAt(LowerChars, Find(UpperChars, c))
    ELSE c

\* str.lower
RECURSIVE Lower(_)
Lower(s) == IF Len(s) = 0 THEN s ELSE LowerChar(CharAt(s, 1)) \o Lower(SubSeq(s, 2, Len(s)))

IsSpace(c) == c \in {" ", "\t", "\n", "\r"}

RECURSIVE LStrip(_)
LStrip(s) == IF Len(s) > 0 /\ IsSpace(CharAt(s, 1)) THEN LStrip(SubSeq(s, 2, Len(s))) ELSE s

RECURSIVE RStrip(_)
RStrip(s) == IF Len(s) > 0 /\ IsSpace(CharAt(s, Len(s))) THEN RStrip(SubSeq(s, 1, Len(s) - 1)) ELSE s

\* str.strip
Strip(s) == LStrip(RStrip(s))

IsDigit(c) == c \in {"0", "1", "2", "3", "4", "5", "6", "7", "8", "9"}

DigitValue(c) == Find("0123456789", c) - 1

\* int(s) of a string of decimal digits
RECURSIVE ParseInt(_)
ParseInt(s) ==
    IF Len(s) = 0 THEN 0
    ELSE 10 * ParseInt(SubSeq(s, 1, Len(s) - 1)) + DigitValue(CharAt(s, Len(s)))

\* the code-point order of the characters the model's names use
CodeOrder == " *0123456789ABCDEFGHIJKLMNOPQRSTUVWXYZ[\\]_abcdefghijklmnopqrstuvwxyz"

Ord(c) == Find(CodeOrder, c)

\* Python's s < t on str: lexicographic by code point
RECURSIVE StrLess(_, _)
StrLess(s, t) ==
    IF Len(t) = 0 THEN FALSE
    ELSE IF Len(s) = 0 THEN TRUE
    ELSE IF CharAt(s, 1) = CharAt(t, 1)
         THEN StrLess(SubSeq(s, 2, Len(s)), SubSeq(t, 2, Len(t)))
         ELSE Ord(CharAt(s, 1)) < Ord(CharAt(t, 1))

\* sorted(S) for a set of strings
RECURSIVE Sorted(_)
Sorted(S) ==
    IF S = {} THEN <<>>
    ELSE LET m == CHOOSE x \in S : \A y \in S \ {x} : StrLess(x, y)
         IN <<m>> \o Sorted(S \ {m})

----------------------------------------------------------------------------
(* ClangAstParser: tables *)

type_map ==
    [k \in {"unsigned int", "uint32_t", "int", "int32_t", "unsigned char", "uint8_t",
            "signed char", "int8_t", "char", "unsigned short", "uint16_t", "short",
            "int16_t", "unsigned long long", "uint64_t", "long long", "int64_t",
            "float", "double", "void", "_Bool", "bool", "size_t", "intptr_t",
            "uintptr_t", "ptrdiff_t"} |->
        CASE k \in {"unsigned int", "uint32_t"} -> "u32"
          [] k \in {"int", "int32_t"} -> "i32"
          [] k \in {"unsigned char", "uint8_t"} -> "u8"
          [] k \in {"signed char", "int8_t"} -> "i8"
          [] k = "char" -> "c_char"
          [] k \in {"unsigned short", "uint16_t"} -> "u16"
          [] k \in {"short", "int16_t"} -> "i16"
          [] k \in {"unsigned long long", "uint64_t"} -> "u64"
          [] k \in {"long long", "int64_t"} -> "i64"
          [] k = "float" -> "f32"
          [] k = "double" -> "f64"
          [] k = "void" -> "c_void"
          [] k \in {"_Bool", "bool"} -> "bool"
          [] k \in {"size_t", "uintptr_t"} -> "usize"
          [] k \in {"intptr_t", "ptrdiff_t"} -> "isize"]

ignore_names ==
    {"va_list", "__builtin_va_list", "__va_list_tag", "wchar_t", "max_align_t",
     "__va_start", "__security_init_cookie", "__security_check_cookie",
     "__report_gsfailure"}

----------------------------------------------------------------------------
(* ClangAstParser: the location filter *)

\* os.path.basename, by the platform's path module
Basename(p, os) ==
    LET seps == IF os = "nt" THEN {"/", "\\"} ELSE {"/"}
        cut == {i \in 1..Len(p) : CharAt(p, i) \in seps}
    IN IF cut = {} THEN p
       ELSE SubSeq(p, (CHOOSE i \in cut : \A j \in cut : j <= i) + 1, Len(p))

HeaderFilename(header_file, os) == Lower(Replace(Basename(header_file, os), "\\", "/"))

\* the filter that takes a node without location as valid
is_valid_loc_accept_missing(n, hf) ==
    LET loc == Get(n, "loc", <<>>)
    IN IF DOMAIN loc = {} THEN TRUE
       ELSE IF ~Has(loc, "file") THEN TRUE
       ELSE EndsWith(Lower(Replace(loc["file"], "\\", "/")), hf)

is_valid_loc(n, hf) ==
    LET loc == Get(n, "loc", <<>>)
    IN IF DOMAIN loc = {} THEN FALSE
       ELSE IF ~Has(loc, "file") THEN TRUE
       ELSE EndsWith(Lower(Replace(loc["file"], "\\", "/")), hf)

----------------------------------------------------------------------------
(* ClangAstParser: documentation comments *)

RECURSIVE extract_comment_text(_)
RECURSIVE ExtractAll(_)
ExtractAll(children) ==
    IF Len(children) = 0 THEN ""
    ELSE extract_comment_text(Head(children)) \o ExtractAll(Tail(children))

extract_comment_text(n) ==
    IF n["kind"] = "TextComment" THEN Get(n, "text", "")
    ELSE IF Has(n, "inner") THEN ExtractAll(n["inner"])
    ELSE ""

\* str.splitlines, for the line break "\n"
RECURSIVE SplitLines(_)
SplitLines(s) ==
    IF Len(s) = 0 THEN <<>>
    ELSE LET i == Find(s, "\n")
         IN IF i = 0 THEN <<s>>
            ELSE <<SubSeq(s, 1, i - 1)>> \o SplitLines(SubSeq(s, i + 1, Len(s)))

CleanLine(line) ==
    LET l == Strip(line)
    IN IF StartsWith(l, "*") THEN Strip(SubSeq(l, 2, Len(l))) ELSE l

\* "\n".join(lines)
RECURSIVE JoinLines(_)
JoinLines(lines) ==
    IF Len(lines) = 0 THEN ""
    ELSE IF Len(lines) = 1 THEN lines[1]
    ELSE lines[1] \o "\n" \o JoinLines(Tail(lines))

clean_comment(raw_comment) ==
    IF raw_comment = None \/ raw_comment = "" THEN None
    ELSE LET lines == SplitLines(raw_comment)
         IN Strip(JoinLines([i \in 1..Len(lines) |-> CleanLine(lines[i])]))

----------------------------------------------------------------------------
(* ClangAstParser: constant folding *)

Abs(a) == IF a < 0 THEN 0 - a ELSE a

\* Python's & and | on unbounded two's-complement integers
RECURSIVE BitAnd(_, _)
BitAnd(a, b) ==
    IF a = 0 \/ b = 0 THEN 0
    ELSE IF a = -1 THEN b
    ELSE IF b = -1 THEN a
    ELSE ((a % 2) * (b % 2)) + 2 * BitAnd(a \div 2, b \div 2)

RECURSIVE BitOr(_, _)
BitOr(a, b) ==
    IF a = 0 THEN b
    ELSE IF b = 0 THEN a
    ELSE IF a = -1 \/ b = -1 THEN -1
    ELSE Max(a % 2, b % 2) + 2 * BitOr(a \div 2, b \div 2)

\* int(l / r): the quotient truncated towards zero
TruncDiv(l, r) ==
    IF (l >= 0) = (r > 0) THEN Abs(l) \div Abs(r) ELSE 0 - (Abs(l) \div Abs(r))

IsExprChild(c) == Get(c, "kind", None) \notin {"FullComment", "TextComment"}

\* the try block without its shift branches
Supported_no_shift(op) == op \in {"|", "&", "+", "-", "*", "/"}

\* the operators of the try block; Raises: the ones whose evaluation raises
Supported(op) == op \in {"<<", ">>", "|", "&", "+", "-", "*", "/"}

Raises(op, l, r) ==
    \/ op \in {"<<", ">>"} /\ r < 0
    \/ op = "/" /\ r = 0

Apply(op, l, r) ==
    CASE op = "<<" -> l * (2 ^ r)
      [] op = ">>" -> l \div (2 ^ r)
      [] op = "|" -> BitOr(l, r)
      [] op = "&" -> BitAnd(l, r)
      [] op = "+" -> l + r
      [] op = "-" -> l - r
      [] op = "*" -> l * r
      [] op = "/" -> TruncDiv(l, r)

\* the try block with 0 for the result of an operator that raises
Folded_zero_on_raise(op, l, r) ==
    IF Supported(op) THEN (IF Raises(op, l, r) THEN 0 ELSE Apply(op, l, r)) ELSE l

\* lines 213-231: the result of the try block, or of the fall through to
\* evaluate_expr(inner[0]), whose value l is
Folded(op, l, r) ==
    IF Supported(op) /\ ~Raises(op, l, r) THEN Apply(op, l, r) ELSE l

RECURSIVE evaluate_expr(_)
evaluate_expr(n) ==
    LET kind == Get(n, "kind", None)
        inner == SelectSeq(Get(n, "inner", <<>>), IsExprChild)
    IN IF kind = "IntegerLiteral" THEN ParseInt(Get(n, "value", "0"))
       ELSE IF Len(inner) > 0
       THEN IF kind = "BinaryOperator" /\ Len(inner) >= 2
            THEN LET op == Get(n, "opcode", None)
                     l == evaluate_expr(inner[1])
                     r == evaluate_expr(inner[2])
                 IN Folded(op, l, r)
            ELSE evaluate_expr(inner[1])
       ELSE 0

----------------------------------------------------------------------------
(* ClangAstParser.parse_type *)

\* the length of the run of digits of s that starts at position i
RECURSIVE DigitRun(_, _)
DigitRun(s, i) == IF IsDigit(CharAt(s, i)) THEN 1 + DigitRun(s, i + 1) ELSE 0

\* the length of the match of \[\d+\] at position i of s, 0 when there is none
DimMatch(s, i) ==
    LET d == DigitRun(s, i + 1)
    IN IF CharAt(s, i) = "[" /\ d > 0 /\ CharAt(s, i + 1 + d) = "]" THEN d + 2 ELSE 0

\* re.findall(r"\[(\d+)\]", s), from position i
RECURSIVE FindDims(_, _)
FindDims(s, i) ==
    IF i > Len(s) THEN <<>>
    ELSE LET m == DimMatch(s, i)
         IN IF m > 0 THEN <<SubSeq(s, i + 1, i + m - 2)>> \o FindDims(s, i + m)
            ELSE FindDims(s, i + 1)

\* re.sub(r"\[\d+\]", "", s), from position i
RECURSIVE SubDims(_, _)
SubDims(s, i) ==
    IF i > Len(s) THEN ""
    ELSE LET m == DimMatch(s, i)
         IN IF m > 0 THEN SubDims(s, i + m)
            ELSE CharAt(s, i) \o SubDims(s, i + 1)

TypeInfo(name, is_pointer, is_const, array_size, array_size_2d) ==
    [name |-> name, is_pointer |-> is_pointer, is_const |-> is_const,
     array_size |-> array_size, array_size_2d |-> array_size_2d]

\* the extents taken in the order they are written
ArraySizes_outer_first(dims) ==
    IF Len(dims) = 1 THEN <<ParseInt(dims[1]), NoneInt>>
    ELSE IF Len(dims) = 2 THEN <<ParseInt(dims[1]), ParseInt(dims[2])>>
    ELSE <<NoneInt, NoneInt>>

\* lines 238-244: <<array_size, array_size_2d>> of the extents found
ArraySizes(dims) ==
    IF Len(dims) = 1 THEN <<ParseInt(dims[1]), NoneInt>>
    ELSE IF Len(dims) = 2 THEN <<ParseInt(dims[2]), ParseInt(dims[1])>>
    ELSE <<NoneInt, NoneInt>>

parse_type(qual_type) ==
    LET dims == FindDims(qual_type, 1)
        array_size == ArraySizes(dims)[1]
        array_size_2d == ArraySizes(dims)[2]
        t1 == IF Len(dims) > 0 THEN Strip(SubDims(qual_type, 1)) ELSE qual_type
        is_const == Contains(t1, "const ")
        t2 == Strip(Replace(t1, "const ", ""))
        is_pointer == Contains(t2, "*")
        t3 == Strip(Replace(t2, "*", ""))
        t4 == Strip(Replace(Replace(Replace(t3, "struct ", ""), "union ", ""), "enum ", ""))
        t5 == IF t4 \in DOMAIN type_map THEN type_map[t4] ELSE t4
    IN TypeInfo(t5, is_pointer, is_const, array_size, array_size_2d)

----------------------------------------------------------------------------
(* The type model and ApiModule *)

EnumValue(name, value, cmt) == [name |-> name, value |-> value, comment |-> cmt]

Enum(name, underlying_type, values, is_anonymous, is_bitflags, cmt, ast_id) ==
    [name |-> name, underlying_type |-> underlying_type, values |-> values,
     is_anonymous |-> is_anonymous, is_bitflags |-> is_bitflags, comment |-> cmt,
     ast_id |-> ast_id]

Field(name, type_info, cmt) == [name |-> name, type_info |-> type_info, comment |-> cmt]

Struct(name, fields, is_union, is_opaque, cmt) ==
    [name |-> name, fields |-> fields, is_union |-> is_union, is_opaque |-> is_opaque,
     comment |-> cmt]

Function(name, ret_type, params, cmt) ==
    [name |-> name, ret_type |-> ret_type, params |-> params, comment |-> cmt]

Typedef(name, target_type, cmt) == [name |-> name, target_type |-> target_type, comment |-> cmt]

\* a dict with no entry
EmptyMap == <<>>

\* d[k] = v on a dict
Put(d, k, v) == [x \in DOMAIN d \cup {k} |-> IF x = k THEN v ELSE d[x]]

\* add_struct without the guards: the last writer wins
add_struct_overwrite(sm, s) == Put(sm, s.name, s)

\* add_struct that lets any complete struct replace the stored one
add_struct_complete_wins(sm, s) ==
    IF s.name \in DOMAIN sm
    THEN IF ~s.is_opaque THEN Put(sm, s.name, s) ELSE sm
    ELSE Put(sm, s.name, s)

\* ApiModule.add_struct, on structs_map
add_struct(sm, s) ==
    IF s.name \in DOMAIN sm
    THEN IF sm[s.name].is_opaque /\ ~s.is_opaque THEN Put(sm, s.name, s) ELSE sm
    ELSE Put(sm, s.name, s)

\* The parser's mutable state, passed through the visitors: the ApiModule's
\* collections and processed_ids.
ParserState(es, em, sm, fs, ts, ids) ==
    [enums |-> es, enum_map |-> em, structs_map |-> sm, functions |-> fs,
     typedefs |-> ts, processed_ids |-> ids]

\* ApiModule.add_enum
add_enum(P, e) ==
    [P EXCEPT !.enums = Append(@, e),
              !.enum_map = IF e.ast_id # None /\ e.ast_id # "" THEN Put(@, e.ast_id, e) ELSE @]

----------------------------------------------------------------------------
(* ClangAstParser.visit_enum *)

IsNotFullComment(c) == Get(c, "kind", None) # "FullComment"

\* next_val left at the constant's value
NextVal_same(val) == val

\* next_val after a constant of value val
NextVal(val) == val + 1

\* the loop over the enum's children, from child i on
RECURSIVE EnumValues(_, _, _, _, _)
EnumValues(inner, i, values, next_val, val_comment) ==
    IF i > Len(inner) THEN values
    ELSE LET child == inner[i]
         IN IF child["kind"] = "FullComment"
            THEN EnumValues(inner, i + 1, values, next_val,
                            clean_comment(extract_comment_text(child)))
            ELSE IF child["kind"] = "EnumConstantDecl"
            THEN LET expr_nodes == SelectSeq(Get(child, "inner", <<>>), IsNotFullComment)
                     val == IF Len(expr_nodes) > 0 THEN evaluate_expr(child) ELSE next_val
                 IN EnumValues(inner, i + 1,
                               Append(values, EnumValue(child["name"], val, val_comment)),
                               NextVal(val), None)
            ELSE EnumValues(inner, i + 1, values, next_val, val_comment)

\* the underlying type visit_enum chooses
EnumUnderlying(n, inferred_type) ==
    LET fixed0 == IF Has(n, "fixedUnderlyingType")
                  THEN Get(n["fixedUnderlyingType"], "qualType", "u32")
                  ELSE "u32"
        fixed1 == IF ~Has(n, "fixedUnderlyingType") /\ inferred_type # None /\ inferred_type # ""
                  THEN inferred_type
                  ELSE fixed0
    IN IF fixed1 \in DOMAIN type_map THEN type_map[fixed1] ELSE fixed1

visit_enum(P, n, cmt, inferred_name, inferred_type) ==
    LET name0 == Get(n, "name", "")
        name == IF name0 = "" /\ inferred_name # None /\ inferred_name # ""
                THEN inferred_name
                ELSE name0
        values == EnumValues(Get(n, "inner", <<>>), 1, <<>>, 0, None)
        is_bitflags == name # "" /\ (Contains(name, "Flags") \/ Contains(name, "Bits"))
    IN add_enum(P, Enum(name, EnumUnderlying(n, inferred_type), values, name = "",
                        is_bitflags, cmt, Get(n, "id", None)))

----------------------------------------------------------------------------
(* ClangAstParser.visit_record and parse_fields *)

\* the guard of visit_record left out
Processed_never(P, n) == FALSE

\* line 289: the node's id is in processed_ids
Processed(P, n) == Get(n, "id", None) \in P.processed_ids

IsFieldOrRecord(c) == c["kind"] \in {"FieldDecl", "RecordDecl"}

RECURSIVE visit_record(_, _, _, _)
RECURSIVE ParseFieldsFrom(_, _, _, _, _, _)

\* the loop of parse_fields, from child i on; the result is the fields and
\* the parser state after the nested visits
ParseFieldsFrom(P, inner, i, parent_name, fields, cmt) ==
    IF i > Len(inner) THEN [fields |-> fields, P |-> P]
    ELSE LET child == inner[i]
             kind == child["kind"]
         IN IF kind = "FullComment"
            THEN ParseFieldsFrom(P, inner, i + 1, parent_name, fields,
                                 clean_comment(extract_comment_text(child)))
            ELSE IF kind = "RecordDecl" /\ Get(child, "name", "") = ""
            THEN LET nested == IF parent_name # "" THEN parent_name \o "_Data"
                               ELSE "AnonymousInner"
                 IN ParseFieldsFrom(visit_record(P, child, nested, cmt), inner, i + 1,
                                    parent_name,
                                    Append(fields,
                                           Field("data",
                                                 TypeInfo(nested, FALSE, FALSE, NoneInt, NoneInt),
                                                 cmt)),
                                    None)
            ELSE IF kind = "FieldDecl"
            THEN LET fname == Get(child, "name", "")
                 IN ParseFieldsFrom(P, inner, i + 1, parent_name,
                                    IF fname # ""
                                    THEN Append(fields,
                                                Field(fname,
                                                      parse_type(child["type"]["qualType"]),
                                                      cmt))
                                    ELSE fields,
                                    None)
            ELSE ParseFieldsFrom(P, inner, i + 1, parent_name, fields, cmt)

parse_fields(P, record_node, parent_name) ==
    ParseFieldsFrom(P, Get(record_node, "inner", <<>>), 1, parent_name, <<>>, None)

\* forced_name and cmt are None when the caller leaves them out
visit_record(P, n, forced_name, cmt) ==
    IF Processed(P, n) THEN P
    ELSE LET name == IF forced_name # None /\ forced_name # "" THEN forced_name
                     ELSE Get(n, "name", "")
         IN IF name = "" THEN P
            ELSE LET P1 == [P EXCEPT !.processed_ids = @ \cup {Get(n, "id", None)}]
                     is_union == Get(n, "tagUsed", None) = "union"
                     inner == Get(n, "inner", <<>>)
                     has_fields == \E i \in 1..Len(inner) : IsFieldOrRecord(inner[i])
                     is_complete == Get(n, "completeDefinition", FALSE) \/ has_fields
                 IN IF ~is_complete
                    THEN [P1 EXCEPT !.structs_map =
                                add_struct(@, Struct(name, <<>>, is_union, TRUE, cmt))]
                    ELSE LET r == parse_fields(P1, n, name)
                         IN [r.P EXCEPT !.structs_map =
                                add_struct(@, Struct(name, r.fields, is_union, FALSE, cmt))]

----------------------------------------------------------------------------
(* The declarations of the dump that carry an id other nodes refer to.   *)
(* The header modelled:                                                    *)
(*     struct RfxDev;                        0x1                           *)
(*     struct RfxDev { int a; };             0x2                           *)
(*     struct { float b[4]; }                0x3  (named by a typedef)     *)
(*     union RfxBuf { /** d */ struct { int x; }; int : 4; };   0x4, 0x5   *)
(*     enum { RFX_A, RFX_B = 5, RFX_C };     0x6                           *)
(*     enum RfxFlags : uint16_t { RFX_F_X = 1 << 4 };   0x7                *)
(*     enum : int { RFX_K };                 0x8                           *)
(*     struct RfxImgT { int w[2][4]; };      0x9  (named by a typedef)     *)

FieldDecl(name, qual_type) ==
    [kind |-> "FieldDecl", name |-> name, type |-> [qualType |-> qual_type]]

IntegerLiteral(v) == [kind |-> "IntegerLiteral", value |-> v]

BinaryOperator(op, l, r) == [kind |-> "BinaryOperator", opcode |-> op, inner |-> <<l, r>>]

\* the wrapper clang puts around an initializer
ConstantExpr(e) == [kind |-> "ConstantExpr", inner |-> <<e>>]

EnumConstantDecl(name, inner) == [kind |-> "EnumConstantDecl", name |-> name, inner |-> inner]

\* a constant without initializer has no "inner"
EnumConstantPlain(name) == [kind |-> "EnumConstantDecl", name |-> name]

TextOf(text) ==
    [kind |-> "FullComment",
     inner |-> <<[kind |-> "ParagraphComment",
                  inner |-> <<[kind |-> "TextComment", text |-> text]>>]>>]

RecordNodes ==
    {[id |-> "0x1", kind |-> "RecordDecl", name |-> "RfxDev", tagUsed |-> "struct"],
     [id |-> "0x2", kind |-> "RecordDecl", name |-> "RfxDev", tagUsed |-> "struct",
      completeDefinition |-> TRUE, inner |-> <<FieldDecl("a", "int")>>],
     [id |-> "0x3", kind |-> "RecordDecl", tagUsed |-> "struct",
      completeDefinition |-> TRUE, inner |-> <<FieldDecl("b", "float [4]")>>],
     [id |-> "0x4", kind |-> "RecordDecl", name |-> "RfxBuf", tagUsed |-> "union",
      completeDefinition |-> TRUE,
      inner |-> <<TextOf(" * d"),
                  [id |-> "0x5", kind |-> "RecordDecl", tagUsed |-> "struct",
                   completeDefinition |-> TRUE, inner |-> <<FieldDecl("x", "int")>>],
                  [kind |-> "FieldDecl", type |-> [qualType |-> "int"]]>>],
     [id |-> "0x9", kind |-> "RecordDecl", name |-> "RfxImgT", tagUsed |-> "struct",
      completeDefinition |-> TRUE, inner |-> <<FieldDecl("w", "int [2][4]")>>]}

EnumNodes ==
    {[id |-> "0x6", kind |-> "EnumDecl",
      inner |-> <<EnumConstantPlain("RFX_A"),
                  EnumConstantDecl("RFX_B", <<ConstantExpr(IntegerLiteral("5"))>>),
                  EnumConstantPlain("RFX_C")>>],
     [id |-> "0x7", kind |-> "EnumDecl", name |-> "RfxFlags",
      fixedUnderlyingType |-> [qualType |-> "uint16_t"],
      inner |-> <<EnumConstantDecl("RFX_F_X",
                     <<ConstantExpr(BinaryOperator("<<", IntegerLiteral("1"),
                                                   IntegerLiteral("4")))>>)>>],
     [id |-> "0x8", kind |-> "EnumDecl",
      fixedUnderlyingType |-> [qualType |-> "int"],
      inner |-> <<EnumConstantPlain("RFX_K")>>]}

IndexedNodes == RecordNodes \cup EnumNodes

\* ClangAstParser.node_index after index_nodes: each id's node of the dump,
\* the one that has "inner" when there is one
node_index ==
    [i \in {n["id"] : n \in IndexedNodes} |-> CHOOSE n \in IndexedNodes : n["id"] = i]

\* the reference clang leaves where a declaration is named again
Stub(n) ==
    IF Has(n, "name")
    THEN [id |-> n["id"], kind |-> n["kind"], name |-> n["name"]]
    ELSE [id |-> n["id"], kind |-> n["kind"]]

----------------------------------------------------------------------------
(* ClangAstParser.visit_typedef, visit_function *)

\* the ownedTagDecl, or the indexed node it stands for
OwnedDecl(decl) ==
    IF Has(decl, "id") /\ ~Has(decl, "inner") /\ decl["id"] \in DOMAIN node_index
    THEN node_index[decl["id"]]
    ELSE decl

NoDecl == [kind |-> None]

\* the first child that decides, from child i on
RECURSIVE ResolveInner(_, _)
ResolveInner(inner, i) ==
    IF i > Len(inner) THEN NoDecl
    ELSE LET child == inner[i]
         IN IF child["kind"] \in {"RecordDecl", "EnumDecl"} THEN child
            ELSE IF child["kind"] = "ElaboratedType" /\ Has(child, "ownedTagDecl")
            THEN OwnedDecl(child["ownedTagDecl"])
            ELSE ResolveInner(inner, i + 1)

\* NoDecl stands for the result None
resolve_underlying_decl(n) ==
    IF Has(n, "ownedTagDecl") THEN OwnedDecl(n["ownedTagDecl"])
    ELSE IF Has(n, "inner") THEN ResolveInner(n["inner"], 1)
    ELSE NoDecl

SmallInts == {"u8", "u16", "u32", "u64", "i8", "i16", "i32", "i64"}

\* lt is last_typedef_tracker[0]; the result is the parser state and the tracker
visit_typedef(P, n, cmt, lt) ==
    LET name == Get(n, "name", "")
    IN IF name = "" \/ name \in ignore_names THEN [P |-> P, lt |-> lt]
       ELSE LET underlying == resolve_underlying_decl(n)
            IN IF underlying["kind"] = "RecordDecl"
               THEN [P |-> visit_record(P, underlying, name, cmt), lt |-> None]
               ELSE IF underlying["kind"] = "EnumDecl"
               THEN [P |-> visit_enum(P, underlying, cmt, name, None), lt |-> None]
               ELSE LET target == parse_type(n["type"]["qualType"])
                        keep == name \notin DOMAIN type_map
                                /\ (target.name # name \/ target.is_pointer)
                    IN [P |-> IF keep
                              THEN [P EXCEPT !.typedefs = Append(@, Typedef(name, target, cmt))]
                              ELSE P,
                        lt |-> IF ~target.is_pointer /\ target.name \in SmallInts
                               THEN name
                               ELSE None]

\* str.split("(")[0]
BeforeParen(s) == IF Find(s, "(") = 0 THEN s ELSE SubSeq(s, 1, Find(s, "(") - 1)

IsParm(c) == c["kind"] = "ParmVarDecl"

visit_function(P, n, cmt) ==
    LET name == Get(n, "name", "")
    IN IF name = "" \/ name \in ignore_names \/ Contains(name, "operator") THEN P
       ELSE LET ret == parse_type(Strip(BeforeParen(n["type"]["qualType"])))
                parms == SelectSeq(Get(n, "inner", <<>>), IsParm)
                params == [i \in 1..Len(parms) |->
                              Field(Get(parms[i], "name", "arg"),
                                    parse_type(parms[i]["type"]["qualType"]), None)]
            IN [P EXCEPT !.functions = Append(@, Function(name, ret, params, cmt))]

----------------------------------------------------------------------------
(* ClangAstParser.parse: one iteration of the loop over root *)

Annotations == {"DLLImportAttr", "DLLExportAttr", "VisibilityAttr"}

\* the reset of the pending comment left out
CommentAfter_keep(kind, cmt) == cmt

\* the pending comment after a node of this kind was dispatched
CommentAfter(kind, cmt) == IF kind \notin Annotations THEN None ELSE cmt

\* the loop body on node n: the parser state, the pending comment and the
\* tracker after it
parse_node(P, cmt, lt, n, hf) ==
    IF ~is_valid_loc(n, hf) THEN [P |-> P, comment |-> None, lt |-> None]
    ELSE LET kind == n["kind"]
         IN IF kind = "FullComment"
            THEN [P |-> P, comment |-> clean_comment(extract_comment_text(n)), lt |-> lt]
            ELSE LET r == CASE kind = "RecordDecl" ->
                                 [P |-> visit_record(P, n, None, cmt), lt |-> None]
                            [] kind = "TypedefDecl" -> visit_typedef(P, n, cmt, lt)
                            [] kind = "EnumDecl" ->
                                 [P |-> visit_enum(P, n, cmt, lt, None), lt |-> None]
                            [] kind = "FunctionDecl" ->
                                 [P |-> visit_function(P, n, cmt), lt |-> None]
                            [] OTHER -> [P |-> P, lt |-> lt]
                 IN [P |-> r.P,
                     comment |-> CommentAfter(kind, cmt),
                     lt |-> r.lt]

----------------------------------------------------------------------------
(* The top-level nodes of the dump *)

MaxNodes == 3

TypedefDecl(name, qual_type) ==
    [kind |-> "TypedefDecl", name |-> name, type |-> [qualType |-> qual_type]]

\* typedef struct RfxDev { int a; } RfxDev;  (the record is 0x2)
TdDevTag ==
    Put(TypedefDecl("RfxDev", "struct RfxDev"), "inner",
        <<[kind |-> "ElaboratedType", ownedTagDecl |-> Stub(node_index["0x2"])]>>)

\* typedef struct { float b[4]; } RfxDev;  (the record is a child)
TdDevAnon == Put(TypedefDecl("RfxDev", "RfxDev"), "inner", <<node_index["0x3"]>>)

\* typedef struct RfxImgT { int w[2][4]; } RfxImg;  (the record is 0x9)
TdImg ==
    Put(TypedefDecl("RfxImg", "struct RfxImgT"), "inner",
        <<[kind |-> "ElaboratedType", ownedTagDecl |-> Stub(node_index["0x9"])]>>)

\* typedef enum { RFX_A, RFX_B = 5, RFX_C } RfxFmt;
TdFmt == Put(TypedefDecl("RfxFmt", "RfxFmt"), "ownedTagDecl", Stub(node_index["0x6"]))

\* typedef uint8_t RfxKind;
TdKind == Put(TypedefDecl("RfxKind", "uint8_t"), "inner", <<[kind |-> "TypedefType"]>>)

\* typedef struct RfxCtxT *RfxCtx;
TdCtx == Put(TypedefDecl("RfxCtx", "struct RfxCtxT *"), "inner", <<[kind |-> "PointerType"]>>)

\* typedef __builtin_va_list va_list;
TdVaList ==
    Put(TypedefDecl("va_list", "__builtin_va_list"), "inner", <<[kind |-> "BuiltinType"]>>)

FunctionDecl(name, qual_type, parms) ==
    [kind |-> "FunctionDecl", name |-> name, type |-> [qualType |-> qual_type],
     inner |-> parms]

FnDestroy ==
    FunctionDecl("rfxCtxDestroy", "void (RfxCtx)",
                 <<[kind |-> "ParmVarDecl", name |-> "d", type |-> [qualType |-> "RfxCtx"]]>>)

FnOperator ==
    FunctionDecl("operator+", "int (int)",
                 <<[kind |-> "ParmVarDecl", type |-> [qualType |-> "int"]]>>)

FnVaStart ==
    FunctionDecl("__va_start", "void (char **, ...)",
                 <<[kind |-> "ParmVarDecl", type |-> [qualType |-> "char **"]]>>)

VarDecl == [kind |-> "VarDecl", name |-> "rfxGlobal", type |-> [qualType |-> "int"]]

Attr(kind) == [kind |-> kind]

\* loc of a node in the file of the node before it, and loc naming a file
LocNoFile == [line |-> 3]
LocFile(f) == [file |-> f, line |-> 3]
LocEmpty == <<>>

At(n, loc) == Put(n, "loc", loc)
Here(n) == At(n, LocNoFile)

\* The dumps the model parses: each is the set of the top-level nodes of one
\* header, scanned in any order.
HeaderStructs ==
    {Here(node_index["0x1"]), Here(node_index["0x2"]), Here(node_index["0x3"]),
     Here(node_index["0x4"]), Here(TdDevTag), Here(TdDevAnon)}

HeaderComments ==
    {Here(TextOf(" * Doc")), Here(TextOf("")), At(TextOf("far"), LocFile("sys/io.h")),
     Here(Attr("DLLImportAttr")), Here(Attr("VisibilityAttr")), Attr("DLLExportAttr"),
     Here(node_index["0x2"]), Here(FnDestroy), Here(TdCtx), Here(node_index["0x7"])}

HeaderLocations ==
    {node_index["0x1"], At(node_index["0x2"], LocEmpty),
     At(TdKind, LocFile("inc\\RFX.H")), At(FnDestroy, LocFile("sys/io.h")),
     At(node_index["0x7"], LocFile("sys/xrfx.h")), At(TdCtx, LocFile("sys/io.h")),
     At(node_index["0x6"], LocFile("inc/rfx.h")), Here(node_index["0x4"]),
     At(VarDecl, LocFile("sys/io.h"))}

HeaderEnums ==
    {Here(TdKind), Here(TdCtx), Here(TdVaList), Here(TdFmt), Here(VarDecl),
     Here(node_index["0x6"]), Here(node_index["0x7"]), Here(node_index["0x8"]),
     Here(FnDestroy), Here(node_index["0x1"]), Here(TextOf("e"))}

HeaderSkipped ==
    {Here(VarDecl), Here(FnOperator), Here(FnVaStart), Here(TdVaList),
     Here(node_index["0x4"]), Here(FnDestroy), At(node_index["0x2"], LocFile("sys/io.h"))}

\* typedef struct RfxImgT {...} RfxImg; and typedef struct {...} RfxDev; as
\* clang dumps them: the record, then the typedef that refers to it
HeaderTags ==
    {Here(node_index["0x9"]), Here(TdImg), Here(node_index["0x3"]), Here(TdDevAnon),
     Here(TdCtx)}

Headers ==
    {HeaderStructs, HeaderComments, HeaderLocations, HeaderEnums, HeaderSkipped,
     HeaderTags}

HeaderFiles == {"inc/rfx.h", "inc\\Rfx.h"}

NoNode == [kind |-> None]

----------------------------------------------------------------------------
(* The ingestion run: ClangAstParser.__init__ and parse *)

GeneratorIdle ==
    /\ handle_types = {}
    /\ union_types = {}
    /\ name_map = EmptyMap
    /\ used_safe_names = EmptyMap
    /\ output = <<>>

Init ==
    /\ \E hf \in HeaderFiles, os \in {"posix", "nt"} :
            header_filename = HeaderFilename(hf, os)
    /\ root \in Headers
    /\ enums = <<>>
    /\ enum_map = EmptyMap
    /\ structs_map = EmptyMap
    /\ functions = <<>>
    /\ typedefs = <<>>
    /\ processed_ids = {}
    /\ comment = None
    /\ last_typedef = None
    /\ node = NoNode
    /\ pos = 0
    /\ pc = "parse"
    /\ GeneratorIdle

\* `for node in root`: the loop takes the next node of the dump and runs the
\* loop body on it
ParseNode ==
    /\ pc = "parse"
    /\ pos < MaxNodes
    /\ \E n \in root :
        /\ \E r \in {parse_node(ParserState(enums, enum_map, structs_map, functions,
                                            typedefs, processed_ids),
                                comment, last_typedef, n, header_filename)} :
              /\ enums' = r.P.enums
              /\ enum_map' = r.P.enum_map
              /\ structs_map' = r.P.structs_map
              /\ functions' = r.P.functions
              /\ typedefs' = r.P.typedefs
              /\ processed_ids' = r.P.processed_ids
              /\ comment' = r.comment
              /\ last_typedef' = r.lt
        /\ node' = n
        /\ root' = root \ {n}
    /\ pos' = pos + 1
    /\ UNCHANGED <<header_filename, handle_types, union_types, name_map,
                   used_safe_names, output, pc>>

\* `return self.module`
ParseReturn ==
    /\ pc = "parse"
    /\ pc' = "parsed"
    /\ UNCHANGED <<header_filename, enums, enum_map, structs_map, functions, typedefs,
                   processed_ids, comment, last_typedef, node, root, handle_types,
                   union_types, name_map, used_safe_names, output, pos>>

Next == ParseNode \/ ParseReturn

Spec == Init /\ [][Next]_vars

----------------------------------------------------------------------------
(* Struct completion (ApiModule.add_struct under parse) *)

\* a step of the loop of parse
Scanned == pos' = pos + 1

IsComplete(sm, nm) == nm \in DOMAIN sm /\ ~sm[nm].is_opaque

\* C1: once structs_map[name] holds a complete struct it holds a complete
\* struct in every later state; complete -> opaque never occurs, whatever the
\* order of the opaque and complete records of that name.
C1_CompletionMonotone ==
    [][\A nm \in DOMAIN structs_map :
          IsComplete(structs_map, nm) => IsComplete(structs_map', nm)]_vars

\* C1 witness: the forward declaration `struct RfxDev;` (0x1) was ingested
\* after the definition, and RfxDev is still complete.
C1_Witness ==
    /\ Get(node, "id", None) = "0x1"
    /\ "0x1" \in processed_ids
    /\ "0x2" \in processed_ids
    /\ IsComplete(structs_map, "RfxDev")

\* C2: structs_map keeps one entry per name, keyed by the struct's own name;
\* a complete entry is never replaced, by an opaque or by another complete
\* struct of the same name; an entry changes only from opaque to complete.
C2_NoOverwriteOfComplete ==
    [][/\ \A nm \in DOMAIN structs_map :
             /\ nm \in DOMAIN structs_map'
             /\ IsComplete(structs_map, nm) => structs_map'[nm] = structs_map[nm]
             /\ structs_map'[nm] # structs_map[nm] =>
                    structs_map[nm].is_opaque /\ ~structs_map'[nm].is_opaque
       /\ \A nm \in DOMAIN structs_map' : structs_map'[nm].name = nm]_vars

\* C2 witness: `struct RfxDev { int a; }` is stored, and the typedef that
\* names the complete record 0x3 (field b) RfxDev has been ingested after it.
C2_Witness ==
    /\ node = Here(TdDevAnon)
    /\ {"0x2", "0x3"} \subseteq processed_ids
    /\ IsComplete(structs_map, "RfxDev")
    /\ structs_map["RfxDev"].fields[1].name = "a"

----------------------------------------------------------------------------
(* The scan of parse: comments, locations, the typedef tracker *)

IsAnnotation(n) == n["kind"] \in Annotations

IsCommentNode(n) == n["kind"] = "FullComment"

HasNoLocation(n) == ~Has(n, "loc") \/ DOMAIN n["loc"] = {}

NamesFile(n) == Has(n, "loc") /\ Has(n["loc"], "file")

\* the node's file, lower-cased and with / for \, ends with the header's name
FileMatches(n) ==
    /\ NamesFile(n)
    /\ EndsWith(Lower(Replace(n["loc"]["file"], "\\", "/")), header_filename)

\* the node has a location that names no file or names the header
InHeader(n) == ~HasNoLocation(n) /\ (~NamesFile(n) \/ FileMatches(n))

ModuleUnchanged ==
    /\ enums' = enums
    /\ enum_map' = enum_map
    /\ structs_map' = structs_map
    /\ functions' = functions
    /\ typedefs' = typedefs

\* a declaration that adds to the ApiModule when the scan considers it: an
\* enum, a named record not seen before, a function or typedef that is not
\* on a skip list
Ingestable(n) ==
    \/ n["kind"] = "EnumDecl"
    \/ /\ n["kind"] = "RecordDecl"
       /\ Get(n, "name", "") # ""
       /\ n["id"] \notin processed_ids
       /\ n["name"] \notin DOMAIN structs_map
    \/ n["kind"] = "FunctionDecl" /\ n["name"] = "rfxCtxDestroy"
    \/ n["kind"] = "TypedefDecl" /\ n["name"] \in {"RfxKind", "RfxCtx"}

\* C7 as stated: after a node other than a comment or an annotation the
\* pending comment is empty, and an annotation never consumes it.
C7_AnnotationNeverConsumes ==
    [][Scanned =>
          /\ (~IsAnnotation(node') /\ ~IsCommentNode(node')) => comment' = None
          /\ IsAnnotation(node') => comment' = comment]_vars

\* C7 amended: after a node other than a comment or an annotation the pending
\* comment is empty; a declaration ingested takes the pending comment; an
\* annotation that passes the location filter leaves the pending comment as it
\* is; any node that fails the location filter, an annotation too, clears it.
C7_CommentCarryOver ==
    [][Scanned =>
          /\ (~IsAnnotation(node') /\ ~IsCommentNode(node')) => comment' = None
          /\ (IsAnnotation(node') /\ InHeader(node')) => comment' = comment
          /\ ~InHeader(node') => comment' = None
          /\ (InHeader(node') /\ Len(functions') = Len(functions) + 1) =>
                 functions'[Len(functions')].comment = comment
          /\ (InHeader(node') /\ Len(enums') = Len(enums) + 1) =>
                 enums'[Len(enums')].comment = comment]_vars

\* C7 witness: an annotation in the header was scanned while the comment
\* "Doc" was pending, and the comment is still pending.
C7_Witness ==
    /\ pos >= 2
    /\ IsAnnotation(node)
    /\ InHeader(node)
    /\ comment = "Doc"

IsDeclaration(n) ==
    n["kind"] \in {"RecordDecl", "EnumDecl", "FunctionDecl", "TypedefDecl", "VarDecl"}

\* the typedef the tracker is for: a kept, non-pointer alias of a small integer
MatchingTypedef(n) ==
    /\ n["kind"] = "TypedefDecl"
    /\ Get(n, "name", "") \notin ignore_names \cup {""}
    /\ resolve_underlying_decl(n) = NoDecl
    /\ ~parse_type(n["type"]["qualType"]).is_pointer
    /\ parse_type(n["type"]["qualType"]).name \in SmallInts

\* C9: the tracker is empty after any top-level declaration of the header
\* other than a matching typedef (a record, an enum, a function, a
\* non-matching or ignored typedef, a declaration of any other kind).
C9_TrackerResets ==
    [][(Scanned /\ InHeader(node') /\ IsDeclaration(node') /\ ~MatchingTypedef(node'))
          => last_typedef' = None]_vars

Canonical(t) == IF t \in DOMAIN type_map THEN type_map[t] ELSE t

\* the type the typedef of this name aliases, from ApiModule.typedefs
AliasedType(name) ==
    LET i == CHOOSE j \in 1..Len(typedefs) : typedefs[j].name = name
    IN typedefs[i].target_type.name

\* C10: the underlying type of an ingested enum is the explicit fixed type of
\* the declaration if present, otherwise the integer type aliased by the
\* preceding typedef whose name the enum inherits, otherwise u32.
C10_UnderlyingPrecedence ==
    [][(Scanned /\ InHeader(node') /\ node'["kind"] = "EnumDecl") =>
          enums'[Len(enums')].underlying_type =
              IF Has(node', "fixedUnderlyingType")
              THEN Canonical(node'["fixedUnderlyingType"]["qualType"])
              ELSE IF ~Has(node', "name") /\ last_typedef # None
              THEN AliasedType(last_typedef)
              ELSE "u32"]_vars

----------------------------------------------------------------------------
(* visit_enum and evaluate_expr on a family of enum declarations *)

MaxConsts == 3

ConstName(i) == "RFX_" \o CharAt("ABCDEFGH", i)

\* the initializers of the family, each with the value it denotes
Initializers ==
    <<[inner |-> <<ConstantExpr(IntegerLiteral("5"))>>, value |-> 5],
      [inner |-> <<TextOf("c"), IntegerLiteral("12")>>, value |-> 12],
      [inner |-> <<ConstantExpr(BinaryOperator("<<", IntegerLiteral("1"),
                                               IntegerLiteral("4")))>>, value |-> 16],
      [inner |-> <<BinaryOperator("|", IntegerLiteral("3"), IntegerLiteral("4")),
                   TextOf("c")>>, value |-> 7]>>

\* shape 0: no initializer; shape -1: no initializer, a documentation comment;
\* shape k > 0: Initializers[k]
ConstShapes == (-1)..Len(Initializers)

ConstantOf(i, shape) ==
    IF shape = 0 THEN EnumConstantPlain(ConstName(i))
    ELSE IF shape = -1 THEN EnumConstantDecl(ConstName(i), <<TextOf("c")>>)
    ELSE EnumConstantDecl(ConstName(i), Initializers[shape].inner)

EnumOf(constants) == [id |-> "0x9", kind |-> "EnumDecl", name |-> "RfxE", inner |-> constants]

SequencedEnums ==
    {EnumOf([i \in 1..Len(f) |-> ConstantOf(i, f[i])]) :
        f \in UNION {[1..k -> ConstShapes] : k \in 0..MaxConsts}}

Opcodes == {"<<", ">>", "|", "&", "+", "-", "*", "/", "%", "^"}

\* the literals of the binary initializers, each with the integer it denotes
LiteralValue == [t \in {"0", "1", "3", "4", "12"} |->
                    CASE t = "0" -> 0 [] t = "1" -> 1 [] t = "3" -> 3
                      [] t = "4" -> 4 [] t = "12" -> 12]

BinaryEnums ==
    {EnumOf(<<EnumConstantDecl("RFX_A",
                 <<BinaryOperator(op, IntegerLiteral(a), IntegerLiteral(b))>>)>>) :
        op \in Opcodes, a \in DOMAIN LiteralValue, b \in DOMAIN LiteralValue}

\* a reference to another constant: a node without children
DeclRefExpr == [kind |-> "DeclRefExpr"]

\* enum RfxE { RFX_A = <e>, RFX_B };
GuardedEnum(e) == EnumOf(<<EnumConstantDecl("RFX_A", <<e>>), EnumConstantPlain("RFX_B")>>)

\* initializers a op (x - y), whose right operand may be zero or negative
RaisingEnums ==
    {GuardedEnum(BinaryOperator(op, IntegerLiteral(a),
                                BinaryOperator("-", IntegerLiteral(x), IntegerLiteral(y)))) :
        op \in {"/", "<<", ">>"}, a \in DOMAIN LiteralValue,
        x \in DOMAIN LiteralValue, y \in DOMAIN LiteralValue}

\* initializers with nothing to evaluate in them
OpaqueEnums ==
    {GuardedEnum(e) : e \in {DeclRefExpr, ConstantExpr(DeclRefExpr),
                             [kind |-> "ParenExpr", inner |-> <<TextOf("c")>>],
                             [kind |-> "BinaryOperator", opcode |-> "+"]}}

EnumInputs == SequencedEnums \cup BinaryEnums \cup RaisingEnums \cup OpaqueEnums

InitEnum ==
    /\ header_filename = "rfx.h"
    /\ root = {}
    /\ enums = <<>>
    /\ enum_map = EmptyMap
    /\ structs_map = EmptyMap
    /\ functions = <<>>
    /\ typedefs = <<>>
    /\ processed_ids = {}
    /\ comment \in {None, "Doc"}
    /\ last_typedef = None
    /\ node \in EnumInputs
    /\ pos = 0
    /\ pc = "enum"
    /\ GeneratorIdle

\* visit_enum(node, comment=comment)
VisitEnum ==
    /\ pc = "enum"
    /\ \E P \in {visit_enum(ParserState(enums, enum_map, structs_map, functions,
                                        typedefs, processed_ids),
                            node, comment, None, None)} :
          /\ enums' = P.enums
          /\ enum_map' = P.enum_map
    /\ pc' = "enum_done"
    /\ UNCHANGED <<header_filename, structs_map, functions, typedefs, processed_ids,
                   comment, last_typedef, node, root, handle_types, union_types,
                   name_map, used_safe_names, output, pos>>

NextEnum == VisitEnum

SpecEnum == InitEnum /\ [][NextEnum]_vars

\* the children of an enum constant that are not its documentation
InitializerOf(c) == SelectSeq(Get(c, "inner", <<>>), IsNotFullComment)

HasInitializer(c) == Len(InitializerOf(c)) > 0

\* the value the family's table gives the constant's initializer
TableValue(c) ==
    LET k == CHOOSE j \in 1..Len(Initializers) : Initializers[j].inner = c["inner"]
    IN Initializers[k].value

InTable(c) == \E j \in 1..Len(Initializers) : Initializers[j].inner = Get(c, "inner", <<>>)

\* C3: the constants are valued in declaration order: without initializer 0
\* for the first and the previous value plus one for the others; with an
\* initializer its folded value.  No initializers give 0, 1, 2, ...;
\* {A, B = 5, C} gives 0, 5, 6.
C3_EnumSequencing ==
    (pc = "enum_done" /\ node \in SequencedEnums) =>
        LET cs == node["inner"]
            vs == enums[1].values
        IN /\ Len(enums) = 1
           /\ Len(vs) = Len(cs)
           /\ \A i \in 1..Len(cs) :
                 /\ vs[i].name = cs[i]["name"]
                 /\ vs[i].value =
                        IF HasInitializer(cs[i]) THEN TableValue(cs[i])
                        ELSE IF i = 1 THEN 0
                        ELSE vs[i - 1].value + 1
           /\ (\A i \in 1..Len(cs) : ~HasInitializer(cs[i])) =>
                  \A i \in 1..Len(cs) : vs[i].value = i - 1
           /\ (Len(cs) = 3 /\ ~HasInitializer(cs[1]) /\ ~HasInitializer(cs[3])
                 /\ cs[2] = ConstantOf(2, 1)) =>
                  <<vs[1].value, vs[2].value, vs[3].value>> = <<0, 5, 6>>

\* C3 witness: { RFX_A, RFX_B = 5, RFX_C } has been ingested.
C3_Witness ==
    /\ pc = "enum_done"
    /\ node = EnumOf(<<ConstantOf(1, 0), ConstantOf(2, 1), ConstantOf(3, 0)>>)
    /\ Len(enums) = 1
    /\ Len(enums[1].values) = 3

Bit(x, i) == (x \div (2 ^ i)) % 2

\* the bits the literals of the family have
BitPositions == 0..4

\* v is the result of op on the integers a and b (both >= 0; b # 0 for /)
IsResult(v, op, a, b) ==
    CASE op = "+" -> v = a + b
      [] op = "-" -> v = a - b
      [] op = "*" -> v = a * b
      [] op = "/" -> v * b <= a /\ a < (v + 1) * b
      [] op = "<<" -> v = a * (2 ^ b)
      [] op = ">>" -> v * (2 ^ b) <= a /\ a < (v + 1) * (2 ^ b)
      [] op = "|" -> /\ 0 <= v /\ v < 32
                     /\ \A i \in BitPositions :
                           Bit(v, i) = 1 <=> (Bit(a, i) = 1 \/ Bit(b, i) = 1)
      [] op = "&" -> /\ 0 <= v /\ v < 32
                     /\ \A i \in BitPositions :
                           Bit(v, i) = 1 <=> (Bit(a, i) = 1 /\ Bit(b, i) = 1)

FoldedOps == {"<<", ">>", "|", "&", "+", "-", "*", "/"}

\* C4: a binary operator over integer literals folds to the operator's result
\* for <<, >>, |, &, +, -, * and truncating / (1 << 4 = 16, 3 | 4 = 7); any
\* other opcode gives the value of the left operand.
C4_ConstantFolding ==
    (pc = "enum_done" /\ node \in BinaryEnums) =>
        LET e == node["inner"][1]["inner"][1]
            op == e["opcode"]
            a == LiteralValue[e["inner"][1]["value"]]
            b == LiteralValue[e["inner"][2]["value"]]
            v == enums[1].values[1].value
        IN /\ (op \in FoldedOps /\ ~(op = "/" /\ b = 0)) => IsResult(v, op, a, b)
           /\ op \notin FoldedOps => v = a
           /\ (op = "<<" /\ a = 1 /\ b = 4) => v = 16
           /\ (op = "|" /\ a = 3 /\ b = 4) => v = 7

\* C4 witness: the initializer 1 << 4 has been folded to 16.
C4_Witness ==
    /\ pc = "enum_done"
    /\ node = EnumOf(<<EnumConstantDecl("RFX_A",
                          <<BinaryOperator("<<", IntegerLiteral("1"),
                                           IntegerLiteral("4"))>>)>>)
    /\ enums[1].values[1].value = 16

----------------------------------------------------------------------------
(* RustGenerator.preprocess *)

primitives ==
    {"u8", "u16", "u32", "u64", "i8", "i16", "i32", "i64", "f32", "f64", "bool",
     "usize", "isize", "c_char", "c_void"}

\* re.sub(r"^(rfx|RFX|Rfx)_?", "", name)
strip_rfx(name) ==
    IF \E p \in {"rfx", "RFX", "Rfx"} : StartsWith(name, p)
    THEN LET rest == SubSeq(name, 4, Len(name))
         IN IF StartsWith(rest, "_") THEN SubSeq(rest, 2, Len(rest)) ELSE rest
    ELSE name

\* lines 40-48: the handles and the unions of the module
HandleTypes(sm, tds) ==
    {n \in DOMAIN sm : sm[n].is_opaque}
        \cup {tds[i].name : i \in {j \in 1..Len(tds) :
                 tds[j].target_type.is_pointer /\ tds[j].target_type.name \notin primitives}}

UnionTypes(sm) == {n \in DOMAIN sm : sm[n].is_union}

\* The naming state of preprocess: name_map and used_safe_names
Naming(nm, used) == [name_map |-> nm, used |-> used]

\* lines 52-55, one handle
NameHandle(G, h_name) ==
    LET safe == strip_rfx(h_name)
    IN Naming(Put(G.name_map, h_name, safe), Put(G.used, safe, "handle"))

\* the struct named without the collision check
NameStruct_unchecked(G, s_name) ==
    IF s_name \in DOMAIN G.name_map THEN G
    ELSE Naming(Put(G.name_map, s_name, strip_rfx(s_name)),
                Put(G.used, strip_rfx(s_name), "struct"))

\* lines 57-64, one struct
NameStruct(G, s_name) ==
    IF s_name \in DOMAIN G.name_map THEN G
    ELSE LET safe0 == strip_rfx(s_name)
             safe == IF safe0 \in DOMAIN G.used THEN safe0 \o "Struct" ELSE safe0
         IN Naming(Put(G.name_map, s_name, safe), Put(G.used, safe, "struct"))

\* lines 66-77, one enum
NameEnum(G, enum) ==
    IF enum.is_anonymous \/ enum.name = "" THEN G
    ELSE IF enum.name \in DOMAIN G.name_map THEN G
    ELSE LET safe0 == strip_rfx(enum.name)
             suffix == IF Contains(enum.name, "Flags") THEN "Flags" ELSE "Enum"
             safe == IF safe0 \in DOMAIN G.used /\ ~EndsWith(safe0, suffix)
                     THEN safe0 \o suffix
                     ELSE safe0
         IN Naming(Put(G.name_map, enum.name, safe), Put(G.used, safe, "enum"))

\* lines 79-86, one typedef
NameTypedef(G, td) ==
    IF td.name \in DOMAIN G.name_map THEN G
    ELSE LET safe0 == strip_rfx(td.name)
             safe == IF safe0 \in DOMAIN G.used THEN safe0 \o "Type" ELSE safe0
         IN Naming(Put(G.name_map, td.name, safe), Put(G.used, safe, "typedef"))

\* the body of the loop over the category cat
NameOne(cat, G, item) ==
    CASE cat = "handle" -> NameHandle(G, item)
      [] cat = "struct" -> NameStruct(G, item)
      [] cat = "enum" -> NameEnum(G, item)
      [] cat = "typedef" -> NameTypedef(G, item)

\* a for loop of preprocess: the body applied to the items in order
RECURSIVE ForEach(_, _, _)
ForEach(cat, G, items) ==
    IF Len(items) = 0 THEN G
    ELSE ForEach(cat, NameOne(cat, G, Head(items)), Tail(items))

----------------------------------------------------------------------------
(* The modules handed to the generator *)

MaxDecls == 3

GenNames == {"RfxDev", "Rfx_Dev", "RfxDevStruct", "RfxDevFlags"}

\* what a name of the header declares:
\*   opaque             struct N;
\*   struct, union      struct N { int a; };   union N { int a; };
\*   handle_typedef     typedef struct NT *N;
\*   typedef            typedef const char *N;
\*   enum               enum N { ... };
\*   struct_and_handle  struct N { int a; };  typedef struct NT *N;
GenRoles ==
    {"opaque", "struct", "union", "handle_typedef", "typedef", "enum", "struct_and_handle"}

GenStruct(n, role) ==
    Struct(n, IF role = "opaque" THEN <<>> ELSE <<Field("a", parse_type("int"), None)>>,
           role = "union", role = "opaque", None)

GenTypedef(n, role) ==
    Typedef(n,
            IF role = "typedef" THEN parse_type("const char *")
            ELSE parse_type("struct " \o n \o "T *"),
            None)

GenEnum(n) ==
    Enum(n, "u32", <<>>, FALSE, Contains(n, "Flags") \/ Contains(n, "Bits"), None, None)

Reverse(q) == [i \in 1..Len(q) |-> q[Len(q) + 1 - i]]

\* the declarations of the names in S, in sorted order or its reverse
InOrder(S, rev) == IF rev THEN Reverse(Sorted(S)) ELSE Sorted(S)

GenAssignments ==
    {f \in [GenNames -> GenRoles \cup {"absent"}] :
        Cardinality({n \in GenNames : f[n] # "absent"}) <= MaxDecls}

InitGen ==
    /\ header_filename = "rfx.h"
    /\ root = {}
    /\ \E f \in GenAssignments, rev \in BOOLEAN :
          LET structs == {n \in GenNames :
                             f[n] \in {"opaque", "struct", "union", "struct_and_handle"}}
              tds == InOrder({n \in GenNames :
                                 f[n] \in {"handle_typedef", "typedef", "struct_and_handle"}},
                             rev)
              ens == InOrder({n \in GenNames : f[n] = "enum"}, rev)
          IN /\ structs_map = [n \in structs |-> GenStruct(n, f[n])]
             /\ typedefs = [i \in 1..Len(tds) |-> GenTypedef(tds[i], f[tds[i]])]
             /\ enums = [i \in 1..Len(ens) |-> GenEnum(ens[i])]
    /\ enum_map = EmptyMap
    /\ functions = <<>>
    /\ processed_ids = {}
    /\ comment = None
    /\ last_typedef = None
    /\ node = NoNode
    /\ pos = 0
    /\ pc = "gen"
    /\ handle_types = {}
    /\ union_types = {}
    /\ name_map = EmptyMap
    /\ used_safe_names = EmptyMap
    /\ output = <<>>

ModuleVars ==
    <<header_filename, enums, enum_map, structs_map, functions, typedefs, processed_ids,
      comment, last_typedef, node, root, pos>>

\* preprocess, lines 40-48
IdentifyHandles ==
    /\ pc = "gen"
    /\ handle_types' = HandleTypes(structs_map, typedefs)
    /\ union_types' = UnionTypes(structs_map)
    /\ pc' = "name_handles"
    /\ UNCHANGED <<ModuleVars, name_map, used_safe_names, output>>

Renamed(G, next) ==
    /\ name_map' = G.name_map
    /\ used_safe_names' = G.used
    /\ pc' = next
    /\ UNCHANGED <<ModuleVars, handle_types, union_types, output>>

\* preprocess, lines 52-55
NameHandles ==
    /\ pc = "name_handles"
    /\ Renamed(ForEach("handle", Naming(name_map, used_safe_names),
                       Sorted(handle_types)), "name_structs")

\* preprocess, lines 57-64
NameStructs ==
    /\ pc = "name_structs"
    /\ Renamed(ForEach("struct", Naming(name_map, used_safe_names),
                       Sorted(DOMAIN structs_map)), "name_enums")

\* preprocess, lines 66-77
NameEnums ==
    /\ pc = "name_enums"
    /\ Renamed(ForEach("enum", Naming(name_map, used_safe_names), enums),
               "name_typedefs")

\* preprocess, lines 79-86
NameTypedefs ==
    /\ pc = "name_typedefs"
    /\ Renamed(ForEach("typedef", Naming(name_map, used_safe_names), typedefs),
               "gen_done")

NextGen == IdentifyHandles \/ NameHandles \/ NameStructs \/ NameEnums \/ NameTypedefs

SpecGen == InitGen /\ [][NextGen]_vars

\* a handle: an opaque struct, or a pointer typedef of a non-primitive type
IsHandle(n) ==
    \/ n \in DOMAIN structs_map /\ structs_map[n].is_opaque
    \/ \E i \in 1..Len(typedefs) :
          /\ typedefs[i].name = n
          /\ typedefs[i].target_type.is_pointer
          /\ typedefs[i].target_type.name \notin primitives

\* C5: when a handle and a non-handle struct normalize to the same public
\* name, the handle has the bare name and the struct that name with the suffix
\* Struct, in whichever order the two are declared.
C5_HandleWinsOverStruct ==
    pc = "gen_done" =>
        /\ \A h \in {n \in GenNames : IsHandle(n)} :
              \A s \in {n \in DOMAIN structs_map : ~IsHandle(n)} :
                  strip_rfx(h) = strip_rfx(s) =>
                      /\ name_map[h] = strip_rfx(h)
                      /\ name_map[s] = strip_rfx(h) \o "Struct"
        /\ \A h \in {"RfxDev", "Rfx_Dev"} : \A s \in {"RfxDev", "Rfx_Dev"} \ {h} :
              (IsHandle(h) /\ s \in DOMAIN structs_map /\ ~IsHandle(s)) =>
                  (name_map[h] = "Dev" /\ name_map[s] = "DevStruct")

\* C5 witness: Rfx_Dev is a handle by typedef, RfxDev a complete struct that
\* sorts and is declared before it, and both have been named.
C5_Witness ==
    /\ pc = "gen_done"
    /\ "RfxDev" \in DOMAIN structs_map
    /\ ~structs_map["RfxDev"].is_opaque
    /\ ~IsHandle("RfxDev")
    /\ IsHandle("Rfx_Dev")
    /\ name_map["Rfx_Dev"] = "Dev"

\* C6: after preprocess no two distinct raw names of name_map have the same
\* public name.
C6_PublicNamesDistinct ==
    pc = "gen_done" =>
        \A a \in DOMAIN name_map : \A b \in DOMAIN name_map :
            a # b => name_map[a] # name_map[b]

----------------------------------------------------------------------------
(* Typedefs of records (ClangAstParser.visit_typedef under parse) *)

TypedefName(n) == Get(n, "name", "")

\* n is a typedef of the header that visit_typedef resolves to a record
NamesRecord(n) ==
    /\ n["kind"] = "TypedefDecl"
    /\ InHeader(n)
    /\ TypedefName(n) # ""
    /\ TypedefName(n) \notin ignore_names
    /\ resolve_underlying_decl(n)["kind"] = "RecordDecl"

\* C11: after a typedef that resolves to a record is processed, structs_map
\* has a struct under the typedef's name and module.typedefs has no entry of
\* that name, whether or not the record was reached earlier in the scan.
C11_TypedefNamesRecord ==
    [][(Scanned /\ NamesRecord(node')) =>
          /\ TypedefName(node') \in DOMAIN structs_map'
          /\ \A i \in 1..Len(typedefs') : typedefs'[i].name # TypedefName(node')]_vars

----------------------------------------------------------------------------
(* Array extents (ClangAstParser.parse_type under visit_record) *)

MaxDims == 3

\* the extents written in the type strings, each with its text
ExtentText == [e \in {2, 4, 16} |-> CASE e = 2 -> "2" [] e = 4 -> "4" [] e = 16 -> "16"]

BaseTypes == {"int", "float", "const char *", "uint8_t", "struct RfxDev", "unsigned int"}

RECURSIVE Suffixes(_)
Suffixes(dims) ==
    IF Len(dims) = 0 THEN ""
    ELSE "[" \o ExtentText[Head(dims)] \o "]" \o Suffixes(Tail(dims))

\* clang writes `int[4]` or `int [4]`
TypeString(base, sep, dims) == IF Len(dims) = 0 THEN base ELSE base \o sep \o Suffixes(dims)

DimLists == UNION {[1..k -> DOMAIN ExtentText] : k \in 0..MaxDims}

\* struct RfxArr { <type> v; };
ArrayRecord(qual_type) ==
    [id |-> "0xa", kind |-> "RecordDecl", name |-> "RfxArr", tagUsed |-> "struct",
     completeDefinition |-> TRUE, inner |-> <<FieldDecl("v", qual_type)>>]

InitType ==
    /\ header_filename = "rfx.h"
    /\ root = {}
    /\ enums = <<>>
    /\ enum_map = EmptyMap
    /\ structs_map = EmptyMap
    /\ functions = <<>>
    /\ typedefs = <<>>
    /\ processed_ids = {}
    /\ comment = None
    /\ last_typedef = None
    /\ \E base \in BaseTypes, sep \in {"", " "}, dims \in DimLists :
          node = ArrayRecord(TypeString(base, sep, dims))
    /\ pos = 0
    /\ pc = "record"
    /\ GeneratorIdle

\* visit_record(node, comment=comment)
VisitRecord ==
    /\ pc = "record"
    /\ \E P \in {visit_record(ParserState(enums, enum_map, structs_map, functions,
                                          typedefs, processed_ids),
                              node, None, comment)} :
          /\ structs_map' = P.structs_map
          /\ processed_ids' = P.processed_ids
    /\ pc' = "record_done"
    /\ UNCHANGED <<header_filename, enums, enum_map, functions, typedefs, comment,
                   last_typedef, node, root, handle_types, union_types, name_map,
                   used_safe_names, output, pos>>

NextType == VisitRecord

SpecType == InitType /\ [][NextType]_vars

\* the type the field v of RfxArr was given
FieldType == structs_map["RfxArr"].fields[1].type_info

\* the type string of the field v is base followed by the extents dims
Written(dims) ==
    \E base \in BaseTypes, sep \in {"", " "} :
        node["inner"][1]["type"]["qualType"] = TypeString(base, sep, dims)

\* C13: one suffix [N] gives array_size = N and array_size_2d = None; two
\* suffixes [N][M] give array_size = M and array_size_2d = N; no suffix gives
\* both None (int[4] -> (4, None), int[2][4] -> (4, 2)).
C13_ArrayExtents ==
    pc = "record_done" =>
        /\ Written(<<>>) =>
               FieldType.array_size = NoneInt /\ FieldType.array_size_2d = NoneInt
        /\ \A n \in DOMAIN ExtentText :
               Written(<<n>>) =>
                   FieldType.array_size = n /\ FieldType.array_size_2d = NoneInt
        /\ \A n \in DOMAIN ExtentText : \A m \in DOMAIN ExtentText :
               Written(<<n, m>>) =>
                   FieldType.array_size = m /\ FieldType.array_size_2d = n

\* C13 witness: int[2][4] was parsed to array_size 4, array_size_2d 2.
C13_Witness ==
    /\ pc = "record_done"
    /\ node = ArrayRecord("int[2][4]")
    /\ FieldType.name = "i32"
    /\ FieldType.array_size = 4
    /\ FieldType.array_size_2d = 2

----------------------------------------------------------------------------
(* Folding that raises (ClangAstParser.evaluate_expr under visit_enum) *)

\* the enum ingested has both constants, the second valued one past the first
EnumProduced ==
    /\ Len(enums) = 1
    /\ enums[1].name = "RfxE"
    /\ Len(enums[1].values) = 2
    /\ enums[1].values[1].value \in Int
    /\ enums[1].values[2].value = enums[1].values[1].value + 1

\* C16: folding never aborts: every initializer gets an integer and the enum
\* is produced; a division by zero and a shift by a negative count give the
\* value of the left operand, an initializer with nothing to evaluate gives 0.
C16_FoldingNeverAborts ==
    /\ (pc = "enum_done" /\ node \in RaisingEnums) =>
          LET e == node["inner"][1]["inner"][1]
              op == e["opcode"]
              a == LiteralValue[e["inner"][1]["value"]]
              x == LiteralValue[e["inner"][2]["inner"][1]["value"]]
              y == LiteralValue[e["inner"][2]["inner"][2]["value"]]
          IN /\ EnumProduced
             /\ (op = "/" /\ x = y) => enums[1].values[1].value = a
             /\ (op \in {"<<", ">>"} /\ x < y) => enums[1].values[1].value = a
    /\ (pc = "enum_done" /\ node \in OpaqueEnums) =>
          EnumProduced /\ enums[1].values[1].value = 0

\* C16 witness: RFX_A = 12 << (1 - 3) was folded to 12 and RFX_B follows it.
C16_Witness ==
    /\ pc = "enum_done"
    /\ node = GuardedEnum(BinaryOperator("<<", IntegerLiteral("12"),
                              BinaryOperator("-", IntegerLiteral("1"), IntegerLiteral("3"))))
    /\ enums[1].values[1].value = 12
    /\ enums[1].values[2].value = 13

----------------------------------------------------------------------------
(* Input that is skipped (ClangAstParser.parse) *)

\* the node names a file whose base name is not the header's
OutsideHeader(n) ==
    /\ NamesFile(n)
    /\ Basename(Lower(Replace(n["loc"]["file"], "\\", "/")), "posix") # header_filename

\* a node of the header that the skip policy names
Unhandled(n) ==
    /\ InHeader(n)
    /\ \/ n["kind"] \notin {"FullComment", "RecordDecl", "TypedefDecl", "EnumDecl",
                             "FunctionDecl"}
       \/ /\ n["kind"] \in {"TypedefDecl", "FunctionDecl"}
          /\ Get(n, "name", "") \in ignore_names
       \/ n["kind"] = "FunctionDecl" /\ Contains(Get(n, "name", ""), "operator")

\* no field of any struct is unnamed
FieldsNamed(sm) ==
    \A nm \in DOMAIN sm : \A i \in 1..Len(sm[nm].fields) : sm[nm].fields[i].name # ""

\* C17: a node of an unrecognized kind, a declaration outside the header, an
\* ignore-listed typedef or function and an operator function leave the
\* ApiModule unchanged, an unnamed field adds no field, and the scan goes on.
C17_SkippedInput ==
    [][Scanned =>
          /\ Unhandled(node') => ModuleUnchanged
          /\ OutsideHeader(node') => ModuleUnchanged
          /\ FieldsNamed(structs_map')
          /\ pc' = "parse"]_vars

----------------------------------------------------------------------------
(* Records reached twice (ClangAstParser.visit_record under parse) *)

\* the record node that parse hands to visit_record for the node n
RecordVisited(n) ==
    IF n["kind"] = "RecordDecl" THEN n
    ELSE IF n["kind"] = "TypedefDecl" /\ NamesRecord(n) THEN resolve_underlying_decl(n)
    ELSE NoDecl

\* C18: processed_ids only grows; a visit_record on a node whose id is
\* already in processed_ids, reached again at the top level or through a
\* typedef, changes neither structs_map nor processed_ids; a record visited
\* without a name is not marked as processed.
C18_ProcessedOnce ==
    [][/\ processed_ids \subseteq processed_ids'
       /\ (Scanned /\ InHeader(node')) =>
             LET rec == RecordVisited(node')
             IN /\ (rec # NoDecl /\ Get(rec, "id", None) \in processed_ids) =>
                       (structs_map' = structs_map /\ processed_ids' = processed_ids)
                /\ (node'["kind"] = "RecordDecl" /\ Get(node', "name", "") = "") =>
                       (structs_map' = structs_map /\ processed_ids' = processed_ids)]_vars

\* C18 witness: the record 0x9 was ingested under its tag RfxImgT, and the
\* typedef RfxImg that refers to it has been scanned after it.
C18_Witness ==
    /\ node = Here(TdImg)
    /\ "0x9" \in processed_ids
    /\ "RfxImgT" \in DOMAIN structs_map
    /\ "RfxImg" \notin DOMAIN structs_map

----------------------------------------------------------------------------
(* RustGenerator: identifiers and types *)

IsUpper(c) == Len(c) = 1 /\ Contains(UpperChars, c)

IsLower(c) == Len(c) = 1 /\ Contains(LowerChars, c)

UpperChar(c) == IF IsLower(c) THEN CharAt(UpperChars, Find(LowerChars, c)) ELSE c

\* the length of the run of lower-case letters of s that starts at position i
RECURSIVE LowerRun(_, _)
LowerRun(s, i) == IF IsLower(CharAt(s, i)) THEN 1 + LowerRun(s, i + 1) ELSE 0

\* re.sub("(.)([A-Z][a-z]+)", r"\1_\2", s), from position i
RECURSIVE SubWords(_, _)
SubWords(s, i) ==
    IF i > Len(s) THEN ""
    ELSE IF CharAt(s, i) # "\n" /\ IsUpper(CharAt(s, i + 1)) /\ LowerRun(s, i + 2) > 0
    THEN LET e == i + 1 + LowerRun(s, i + 2)
         IN CharAt(s, i) \o "_" \o SubSeq(s, i + 1, e) \o SubWords(s, e + 1)
    ELSE CharAt(s, i) \o SubWords(s, i + 1)

\* re.sub("([a-z0-9])([A-Z])", r"\1_\2", s), from position i
RECURSIVE SubHumps(_, _)
SubHumps(s, i) ==
    IF i > Len(s) THEN ""
    ELSE IF (IsLower(CharAt(s, i)) \/ IsDigit(CharAt(s, i))) /\ IsUpper(CharAt(s, i + 1))
    THEN CharAt(s, i) \o "_" \o CharAt(s, i + 1) \o SubHumps(s, i + 2)
    ELSE CharAt(s, i) \o SubHumps(s, i + 1)

to_snake_case(name) == Lower(SubHumps(SubWords(strip_rfx(name), 1), 1))

\* str.title, from position i; cased: the character before i is a letter
RECURSIVE Title(_, _, _)
Title(s, i, cased) ==
    IF i > Len(s) THEN ""
    ELSE LET c == CharAt(s, i)
         IN (IF cased THEN LowerChar(c) ELSE UpperChar(c))
                \o Title(s, i + 1, IsUpper(c) \/ IsLower(c))

\* "".join(word.title() for word in s.split("_"))
RECURSIVE TitleWords(_)
TitleWords(s) ==
    IF Find(s, "_") = 0 THEN Title(s, 1, FALSE)
    ELSE Title(SubSeq(s, 1, Find(s, "_") - 1), 1, FALSE)
             \o TitleWords(SubSeq(s, Find(s, "_") + 1, Len(s)))

to_pascal_case(name) == TitleWords(strip_rfx(name))

get_rust_repr(underlying) ==
    LET u == Lower(underlying)
        width(sign) ==
            IF Contains(u, "char") \/ Contains(u, "8") THEN sign \o "8"
            ELSE IF Contains(u, "short") \/ Contains(u, "16") THEN sign \o "16"
            ELSE IF Contains(u, "long long") \/ Contains(u, "64") THEN sign \o "64"
            ELSE sign \o "32"
    IN IF \E w \in {"unsigned", "u8", "u16", "u32", "u64"} : Contains(u, w)
       THEN width("u")
       ELSE width("i")

\* lines 108-122: the base name of the type
RustBase(nm, name, is_sys) ==
    LET base == CASE name \in {"unsigned int", "uint32_t"} -> "u32"
                  [] name \in {"int", "int32_t"} -> "i32"
                  [] name \in {"unsigned char", "uint8_t"} -> "u8"
                  [] name = "_Bool" -> "bool"
                  [] OTHER -> name
    IN IF is_sys THEN base
       ELSE IF base \in DOMAIN nm THEN nm[base]
       ELSE IF base \notin primitives THEN "sys::" \o base
       ELSE base

\* nm is name_map
to_rust_type(nm, t, is_sys) ==
    LET base == RustBase(nm, t.name, is_sys)
    IN IF t.array_size # NoneInt
       THEN IF t.array_size_2d # NoneInt
            THEN "[[" \o base \o "; " \o ToString(t.array_size) \o "]; "
                     \o ToString(t.array_size_2d) \o "]"
            ELSE "[" \o base \o "; " \o ToString(t.array_size) \o "]"
       ELSE IF t.is_pointer
       THEN LET b1 == IF Contains(base, "void") THEN "c_void" ELSE base
                b2 == IF Contains(b1, "char") THEN "c_char" ELSE b1
            IN (IF t.is_const THEN "*const" ELSE "*mut") \o " " \o b2
       ELSE base

----------------------------------------------------------------------------
(* RustGenerator.emit, get_common_prefix, generate_safe_enums *)

\* the line that emit(line, indent) appends to output
Emitted(line, indent) ==
    (CASE indent = 0 -> "" [] indent = 1 -> "    " [] indent = 2 -> "        ") \o line

\* `while not name.startswith(prefix) and prefix: prefix = prefix[:-1]`
RECURSIVE Shrink(_, _)
Shrink(prefix, name) ==
    IF ~StartsWith(name, prefix) /\ Len(prefix) > 0
    THEN Shrink(SubSeq(prefix, 1, Len(prefix) - 1), name)
    ELSE prefix

\* lines 293-295, from values[i] on
RECURSIVE CommonOf(_, _, _)
CommonOf(prefix, values, i) ==
    IF i > Len(values) THEN prefix
    ELSE CommonOf(Shrink(prefix, values[i].name), values, i + 1)

\* str.rfind: the last index (1-based) of the character c in s, 0 when absent
RFind(s, c) ==
    IF Contains(s, c) THEN CHOOSE i \in 1..Len(s) :
                               CharAt(s, i) = c /\ \A j \in (i + 1)..Len(s) : CharAt(s, j) # c
    ELSE 0

\* the shared prefix returned as it is
get_common_prefix_untrimmed(values) ==
    IF Len(values) = 0 THEN "" ELSE CommonOf(values[1].name, values, 2)

get_common_prefix(values) ==
    IF Len(values) = 0 THEN ""
    ELSE LET prefix == CommonOf(values[1].name, values, 2)
         IN IF Contains(prefix, "_") THEN SubSeq(prefix, 1, RFind(prefix, "_")) ELSE prefix

\* val.name[len(prefix):] if val.name.startswith(prefix) else val.name
Unprefixed(name, prefix) ==
    IF StartsWith(name, prefix) THEN SubSeq(name, Len(prefix) + 1, Len(name)) ELSE name

\* lines 256-262: the name of a member of the bit set
FlagName(name, prefix) ==
    LET vname == Unprefixed(name, prefix)
    IN IF Len(vname) = 0 \/ IsDigit(CharAt(vname, 1)) THEN "F" \o vname ELSE vname

\* lines 275-284: the name of a variant of the enumeration
VariantName(name, prefix) ==
    LET v1 == to_pascal_case(Unprefixed(name, prefix))
        v2 == IF v1 \in {"None", "Default"} THEN v1 \o "_" ELSE v1
    IN IF Len(v2) = 0 \/ IsDigit(CharAt(v2, 1)) THEN "V" \o v2 ELSE v2

\* lines 255-263, from values[i] on
RECURSIVE FlagLines(_, _, _)
FlagLines(values, i, prefix) ==
    IF i > Len(values) THEN <<>>
    ELSE <<Emitted("const " \o FlagName(values[i].name, prefix) \o " = sys::"
                       \o values[i].name \o ";", 2)>>
             \o FlagLines(values, i + 1, prefix)

\* lines 270-285, from values[i] on
RECURSIVE VariantLines(_, _, _, _, _)
VariantLines(values, i, prefix, repr_type, seen) ==
    IF i > Len(values) THEN <<>>
    ELSE IF values[i].value \in seen
    THEN VariantLines(values, i + 1, prefix, repr_type, seen)
    ELSE <<Emitted(VariantName(values[i].name, prefix) \o " = sys::" \o values[i].name
                       \o " as " \o repr_type \o ",", 1)>>
             \o VariantLines(values, i + 1, prefix, repr_type, seen \cup {values[i].value})

\* line 248, and line 403 of emit_func: the name is that of a bit set
IsFlagsName(name) == Contains(name, "Flags")

\* lines 242-287: the lines of one enum; nm is name_map
SafeEnum(nm, enum) ==
    IF enum.is_anonymous THEN <<>>
    ELSE LET name == nm[enum.name]
             prefix == get_common_prefix(enum.values)
             repr_type == get_rust_repr(enum.underlying_type)
         IN (IF IsFlagsName(name)
             THEN <<"bitflags::bitflags! {",
                    Emitted("    #[derive(Debug, Clone, Copy, PartialEq, Eq, PartialOrd, Ord, Hash)]", 1),
                    Emitted("    pub struct " \o name \o ": " \o repr_type \o " {", 0)>>
                      \o FlagLines(enum.values, 1, prefix)
                      \o <<Emitted("    }", 0), "}">>
             ELSE <<"#[repr(" \o repr_type \o ")]",
                    "#[derive(Debug, Copy, Clone, PartialEq, Eq, Hash)]",
                    "pub enum " \o name \o " {">>
                      \o VariantLines(enum.values, 1, prefix, repr_type, {})
                      \o <<"}">>)
                \o <<"">>

RECURSIVE SafeEnums(_, _, _)
SafeEnums(nm, es, i) ==
    IF i > Len(es) THEN <<>> ELSE SafeEnum(nm, es[i]) \o SafeEnums(nm, es, i + 1)

generate_safe_enums(nm, es) == <<"//\n// Enums\n//">> \o SafeEnums(nm, es, 1)

----------------------------------------------------------------------------
(* RustGenerator.emit_func, generate_functions *)

\* ", ".join(items)
RECURSIVE Join(_)
Join(items) ==
    IF Len(items) = 0 THEN ""
    ELSE IF Len(items) = 1 THEN items[1]
    ELSE items[1] \o ", " \o Join(Tail(items))

\* the generator's tables: name_map, handle_types and module.enums
Tables(nm, hs, es) == [name_map |-> nm, handle_types |-> hs, enums |-> es]

\* lines 399-404: the first enum whose public name is safe_type, 0 when none
EnumNamed(G, safe_type) ==
    IF \E i \in 1..Len(G.enums) : Get(G.name_map, G.enums[i].name, None) = safe_type
    THEN CHOOSE i \in 1..Len(G.enums) :
            /\ Get(G.name_map, G.enums[i].name, None) = safe_type
            /\ \A j \in 1..(i - 1) : Get(G.name_map, G.enums[j].name, None) # safe_type
    ELSE 0

\* lines 375-415: the parameter p as <<visible parameter, call argument>>
Param(G, p) ==
    LET snake == to_snake_case(p.name)
        pname == IF snake \in {"type", "as"} THEN "r#" \o snake ELSE snake
        t == p.type_info
    IN IF t.is_pointer /\ t.name \in {"char", "c_char"}
       THEN <<pname \o ": &str", "std::ffi::CString::new(" \o pname \o ").unwrap().as_ptr()">>
       ELSE IF t.is_pointer
       THEN <<pname \o ": *mut " \o Get(G.name_map, t.name, t.name),
              pname \o " as *mut "
                  \o (IF t.name \notin primitives THEN "sys::" \o t.name ELSE t.name)>>
       ELSE IF t.name \in DOMAIN G.name_map
       THEN LET safe_type == G.name_map[t.name]
                e == EnumNamed(G, safe_type)
            IN <<pname \o ": " \o safe_type,
                 IF t.name \in G.handle_types THEN pname \o ".0"
                 ELSE IF e = 0 THEN "unsafe { std::mem::transmute(" \o pname \o ") }"
                 ELSE IF IsFlagsName(safe_type) THEN pname \o ".bits()"
                 ELSE pname \o " as " \o get_rust_repr(G.enums[e].underlying_type)>>
       ELSE <<pname \o ": " \o to_rust_type(G.name_map, t, FALSE), pname>>

\* lines 361-366: the name of the function or method
FuncName(func, is_method, handle_name) ==
    LET name == to_snake_case(func.name)
        handle_snake == to_snake_case(handle_name)
        short == Replace(Replace(name, "_" \o handle_snake, ""), handle_snake \o "_", "")
    IN IF ~is_method THEN name
       ELSE IF Contains(handle_snake, "command_list") /\ StartsWith(short, "cmd_")
       THEN SubSeq(short, 5, Len(short))
       ELSE short

\* the loop over the parameters started at the receiver
Start_at_receiver(is_method) == 0

\* line 369: the index of the first parameter the loop takes
Start(is_method) == IF is_method THEN 1 ELSE 0

\* the three lines of one function
emit_func(G, func, is_method, handle_name) ==
    LET start == Start(is_method)
        rest == [i \in 1..(Len(func.params) - start) |-> Param(G, func.params[i + start])]
        params == (IF is_method THEN <<"&self">> ELSE <<>>)
                      \o [i \in 1..Len(rest) |-> rest[i][1]]
        call_args == (IF is_method THEN <<"self.0">> ELSE <<>>)
                         \o [i \in 1..Len(rest) |-> rest[i][2]]
        ret_rust == to_rust_type(G.name_map, func.ret_type, FALSE)
        ret_str == IF ret_rust \in {"void", "c_void"} /\ ~func.ret_type.is_pointer THEN ""
                   ELSE " -> " \o ret_rust
        call == "unsafe { sys::" \o func.name \o "(" \o Join(call_args) \o ") }"
    IN <<Emitted("pub fn " \o FuncName(func, is_method, handle_name) \o "("
                     \o Join(params) \o ")" \o ret_str \o " {", 1),
         Emitted(IF func.ret_type.name \in G.handle_types /\ ~func.ret_type.is_pointer
                 THEN G.name_map[func.ret_type.name] \o "(" \o call \o ")"
                 ELSE IF func.ret_type.name \in DOMAIN G.name_map
                         /\ ~func.ret_type.is_pointer
                 THEN "unsafe { std::mem::transmute(" \o call \o ") }"
                 ELSE call, 2),
         Emitted("}", 1)>>

\* lines 341-343 and 353-355: the first parameter of f is the handle h by value
TakesHandle(f, h) ==
    /\ Len(f.params) > 0
    /\ f.params[1].type_info.name = h
    /\ ~f.params[1].type_info.is_pointer

RECURSIVE EmitAll(_, _, _, _, _)
EmitAll(G, fs, i, is_method, handle_name) ==
    IF i > Len(fs) THEN <<>>
    ELSE emit_func(G, fs[i], is_method, handle_name)
             \o EmitAll(G, fs, i + 1, is_method, handle_name)

\* lines 336-349, from the handle hs[i] on
RECURSIVE Methods(_, _, _, _)
Methods(G, fs, hs, i) ==
    IF i > Len(hs) THEN <<>>
    ELSE LET funcs == SelectSeq(fs, LAMBDA f : TakesHandle(f, hs[i]))
         IN (IF Len(funcs) > 0
             THEN <<"impl " \o G.name_map[hs[i]] \o " {">>
                      \o EmitAll(G, funcs, 1, TRUE, hs[i]) \o <<"}">>
             ELSE <<>>)
                \o Methods(G, fs, hs, i + 1)

\* every function emitted by the second loop
IsFree_always(G, f) == TRUE

\* lines 352-357: f is no method
IsFree(G, f) == ~\E h \in G.handle_types : TakesHandle(f, h)

generate_functions(G, fs) ==
    <<"//\n// Functions\n//">>
        \o Methods(G, fs, Sorted(G.handle_types), 1)
        \o EmitAll(G, SelectSeq(fs, LAMBDA f : IsFree(G, f)), 1, FALSE, "")

----------------------------------------------------------------------------
(* The generation run: preprocess, generate_safe_enums, generate_functions *)

MaxValues == 2

MaxFuncs == 2

ConstNames ==
    {"Rfx_Format_Unknown", "Rfx_Format_Rgba8", "RFX_FORMAT_UNKNOWN", "RFX_FORMAT_R8",
     "RFX_FORMAT_RGBA8", "RFX_FORMAT_NONE", "RFX_FILTER_8X", "RfxLinear"}

\* the constants named names, valued 0, 1, ...; alias: the last one repeats
\* the value of the first
ValuesOf(names, alias) ==
    [i \in 1..Len(names) |->
        EnumValue(names[i], IF alias /\ i = Len(names) THEN 0 ELSE i - 1, None)]

ValueLists ==
    {ValuesOf(names, alias) :
        names \in UNION {[1..k -> ConstNames] : k \in 0..MaxValues}, alias \in BOOLEAN}

DefaultValues == ValuesOf(<<"Rfx_Format_Unknown", "Rfx_Format_Rgba8">>, FALSE)

\* the Function that visit_function makes of `ret name(params)`
Prototype(name, ret, params) ==
    Function(name, parse_type(ret),
             [i \in 1..Len(params) |-> Field(params[i][1], parse_type(params[i][2]), None)],
             None)

Prototypes ==
    {Prototype("rfxDeviceDestroy", "void", <<<<"d", "RfxDevice">>>>),
     Prototype("rfxDeviceSetFormat", "void",
               <<<<"d", "RfxDevice">>, <<"format", "RfxFormat">>,
                 <<"access", "RfxAccessFlags">>, <<"usage", "RfxUsageBits">>>>),
     Prototype("rfxCreateDevice", "RfxDevice", <<<<"name", "const char *">>>>),
     Prototype("rfxDeviceWait", "int", <<<<"d", "RfxDevice *">>>>),
     Prototype("rfxQueueSubmit", "uint32_t",
               <<<<"q", "RfxQueue">>, <<"d", "RfxDevice">>, <<"count", "int">>>>),
     Prototype("rfxInit", "void", <<>>),
     Prototype("rfxDescInit", "RfxDesc",
               <<<<"desc", "RfxDesc *">>, <<"type", "RfxFormat">>>>)}

\* the lists of up to MaxFuncs different prototypes
FuncLists ==
    {fs \in UNION {[1..k -> Prototypes] : k \in 0..MaxFuncs} :
        \A i \in 1..Len(fs) : \A j \in 1..Len(fs) : i # j => fs[i] # fs[j]}

\* The module of the header
\*     typedef struct RfxDeviceT *RfxDevice;  typedef struct RfxQueueT *RfxQueue;
\*     struct RfxDesc { int a; };
\*     enum RfxFormat { ... };  enum RfxAccessFlags { ... };  enum RfxUsageBits { ... };
\* with the constants of RfxFormat and the functions drawn from the families
InitEmit ==
    /\ header_filename = "rfx.h"
    /\ root = {}
    /\ structs_map = [n \in {"RfxDeviceT", "RfxQueueT", "RfxDesc"} |->
                         GenStruct(n, IF n = "RfxDesc" THEN "struct" ELSE "opaque")]
    /\ typedefs = <<GenTypedef("RfxDevice", "handle_typedef"),
                    GenTypedef("RfxQueue", "handle_typedef")>>
    /\ \E vals \in ValueLists, fs \in FuncLists :
          /\ vals = DefaultValues \/ fs = <<>>
          /\ enums = <<Enum("RfxFormat", "u32", vals, FALSE, FALSE, None, "0xb"),
                       Enum("RfxAccessFlags", "u32",
                            <<EnumValue("RFX_ACCESS_READ", 1, None),
                              EnumValue("RFX_ACCESS_WRITE", 2, None)>>,
                            FALSE, TRUE, None, "0xc"),
                       Enum("RfxUsageBits", "u32",
                            <<EnumValue("RFX_USAGE_VERTEX", 1, None),
                              EnumValue("RFX_USAGE_INDEX", 2, None)>>,
                            FALSE, TRUE, None, "0xd")>>
          /\ functions = fs
    /\ enum_map = EmptyMap
    /\ processed_ids = {}
    /\ comment = None
    /\ last_typedef = None
    /\ node = NoNode
    /\ pos = 0
    /\ pc = "gen"
    /\ GeneratorIdle

Emit(lines, next) ==
    /\ output' = output \o lines
    /\ pc' = next
    /\ UNCHANGED <<ModuleVars, handle_types, union_types, name_map, used_safe_names>>

GenerateSafeEnums ==
    /\ pc = "gen_done"
    /\ Emit(generate_safe_enums(name_map, enums), "enums_emitted")

GenerateFunctions ==
    /\ pc = "enums_emitted"
    /\ Emit(generate_functions(Tables(name_map, handle_types, enums), functions),
            "generated")

NextEmit == NextGen \/ GenerateSafeEnums \/ GenerateFunctions

SpecEmit == InitEmit /\ [][NextEmit]_vars

----------------------------------------------------------------------------
(* The safe layer emitted *)

HasLine(l) == \E j \in 1..Len(output) : output[j] = l

\* how many times p occurs in s
Occurrences(s, p) ==
    Cardinality({i \in 1..(Len(s) - Len(p) + 1) : SubSeq(s, i, i + Len(p) - 1) = p})

Greatest(S) == CHOOSE x \in S : \A y \in S : y <= x

\* the `impl ... {` line of the block that line j of output is in, "" when
\* line j is in no block
Block(j) ==
    LET opens == {i \in 1..(j - 1) : StartsWith(output[i], "impl ")}
        closes == {i \in 1..(j - 1) : output[i] = "}"} \cup {0}
    IN IF opens # {} /\ Greatest(opens) > Greatest(closes) THEN output[Greatest(opens)]
       ELSE ""

\* the lines of output that call the raw declaration name
CallLines(name) == {j \in 1..Len(output) : Contains(output[j], "sys::" \o name \o "(")}

\* the first parameter of f is a handle passed by value
ByValueHandle(f) ==
    /\ Len(f.params) > 0
    /\ IsHandle(f.params[1].type_info.name)
    /\ ~f.params[1].type_info.is_pointer

\* C12: an enum classified as a bit-flag set at ingestion (is_bitflags) is
\* emitted as a named bit set whose members reuse the raw constants and never
\* as a plain enumeration; any other named enum is emitted as a plain
\* enumeration; a parameter of the enum's type is converted with bits() for a
\* bit set and with a cast otherwise.
C12_BitflagsEmission ==
    pc = "generated" =>
        \A i \in 1..Len(enums) :
            LET e == enums[i]
                name == name_map[e.name]
                bitset == "    pub struct " \o name \o ": " \o get_rust_repr(e.underlying_type)
                              \o " {"
                plain == "pub enum " \o name \o " {"
            IN ~e.is_anonymous =>
                 /\ e.is_bitflags =>
                       /\ HasLine(bitset) /\ ~HasLine(plain)
                       /\ \A k \in 1..Len(e.values) :
                             \E j \in 1..Len(output) :
                                 /\ StartsWith(output[j], "        const ")
                                 /\ EndsWith(output[j], " = sys::" \o e.values[k].name \o ";")
                 /\ ~e.is_bitflags => (HasLine(plain) /\ ~HasLine(bitset))
                 /\ \A k \in 1..Len(functions) : \A q \in 1..Len(functions[k].params) :
                       LET t == functions[k].params[q].type_info
                           pname == to_snake_case(functions[k].params[q].name)
                       IN (t.name = e.name /\ ~t.is_pointer) =>
                            \A j \in CallLines(functions[k].name) :
                                Contains(output[j], pname \o ".bits()") <=> e.is_bitflags

----------------------------------------------------------------------------
(* Variant names (get_common_prefix under generate_safe_enums) *)

\* the enum RfxFormat and the names of its constants
FormatValues == enums[1].values

\* the longest string every name of the values starts with
LongestCommon(values) ==
    IF Len(values) = 0 THEN ""
    ELSE LET shared == {k \in 0..Len(values[1].name) :
                          \A i \in 1..Len(values) :
                              StartsWith(values[i].name, SubSeq(values[1].name, 1, k))}
         IN SubSeq(values[1].name, 1, Greatest(shared))

\* p cut back to end at its last underscore, p itself when it has none
CutToUnderscore(p) ==
    IF Contains(p, "_")
    THEN SubSeq(p, 1, Greatest({k \in 1..Len(p) : CharAt(p, k) = "_"}))
    ELSE p

\* the lines between `pub enum Format {` and the `}` that closes it
FormatBlock ==
    LET a == CHOOSE j \in 1..Len(output) : output[j] = "pub enum Format {"
        b == CHOOSE j \in (a + 1)..Len(output) :
                 output[j] = "}" /\ \A i \in (a + 1)..(j - 1) : output[i] # "}"
    IN SubSeq(output, a + 1, b - 1)

\* C14 as stated: the variant of every constant is the constant's name with
\* the common prefix removed.
C14_PrefixRemoved ==
    pc = "enums_emitted" =>
        LET prefix == CutToUnderscore(LongestCommon(FormatValues))
        IN \A i \in 1..Len(FormatValues) :
              LET name == FormatValues[i].name
              IN /\ StartsWith(name, prefix)
                 /\ HasLine("    " \o SubSeq(name, Len(prefix) + 1, Len(name))
                                \o " = sys::" \o name \o " as u32,")

\* C14 amended: the prefix is the longest one all constant names share, cut
\* back to its last underscore when it has one, and is a prefix of every
\* constant name; the variant of a constant is its name with the prefix
\* removed, put in Pascal case, with _ after None and Default and V before an
\* empty name or a digit; a constant whose value an earlier one has gets none.
C14_VariantNames ==
    pc = "enums_emitted" =>
        LET prefix == CutToUnderscore(LongestCommon(FormatValues))
            firsts == SelectSeq([i \in 1..Len(FormatValues) |-> i],
                                LAMBDA i : \A j \in 1..(i - 1) :
                                    FormatValues[j].value # FormatValues[i].value)
            ident(name) ==
                LET v == to_pascal_case(SubSeq(name, Len(prefix) + 1, Len(name)))
                    w == IF v \in {"None", "Default"} THEN v \o "_" ELSE v
                IN IF Len(w) = 0 \/ IsDigit(CharAt(w, 1)) THEN "V" \o w ELSE w
        IN /\ \A i \in 1..Len(FormatValues) : StartsWith(FormatValues[i].name, prefix)
           /\ FormatBlock =
                 [k \in 1..Len(firsts) |->
                     "    " \o ident(FormatValues[firsts[k]].name) \o " = sys::"
                         \o FormatValues[firsts[k]].name \o " as u32,"]

\* C14 witness: Rfx_Format_Unknown = 0 and Rfx_Format_Rgba8 = 1 were emitted
\* as the variants Unknown and Rgba8.
C14_Witness ==
    /\ pc = "enums_emitted"
    /\ FormatValues = DefaultValues
    /\ FormatBlock = <<"    Unknown = sys::Rfx_Format_Unknown as u32,",
                       "    Rgba8 = sys::Rfx_Format_Rgba8 as u32,">>

----------------------------------------------------------------------------
(* Methods and free functions (generate_functions, emit_func) *)

\* the signature and the call expected of the functions that take a handle by
\* value, written out by hand from their prototypes
MethodLines ==
    [rfxDeviceDestroy |->
        <<"    pub fn destroy(&self) {",
          "        unsafe { sys::rfxDeviceDestroy(self.0) }">>,
     rfxDeviceSetFormat |->
        <<"    pub fn set_format(&self, format: Format, access: AccessFlags, usage: UsageBits) {",
          "        unsafe { sys::rfxDeviceSetFormat(self.0, format as u32, access.bits(), usage as u32) }">>,
     rfxQueueSubmit |->
        <<"    pub fn submit(&self, d: Device, count: i32) -> u32 {",
          "        unsafe { sys::rfxQueueSubmit(self.0, d.0, count) }">>]

\* C15: a function whose first parameter is a handle passed by value is
\* emitted as a method of that handle's wrapper; the signature has a receiver
\* and the remaining parameters only, the raw call gets the wrapped handle
\* first and the remaining arguments in their order, and a function returning
\* void has no return type.
C15_HandleMethods ==
    pc = "generated" =>
        \A k \in 1..Len(functions) :
            LET f == functions[k]
                rest == Len(f.params) - 1
            IN ByValueHandle(f) =>
                 \E j \in CallLines(f.name) :
                     /\ Block(j) = "impl " \o name_map[f.params[1].type_info.name] \o " {"
                     /\ StartsWith(output[j - 1], "    pub fn ")
                     /\ Contains(output[j - 1], "(&self")
                     /\ Occurrences(output[j - 1], ": ") = rest
                     /\ \A q \in 2..Len(f.params) :
                           Contains(output[j - 1], ", " \o to_snake_case(f.params[q].name) \o ": ")
                     /\ Contains(output[j], "sys::" \o f.name \o "(self.0")
                     /\ Occurrences(output[j], ", ") = rest
                     /\ (f.ret_type.name = "c_void" /\ ~f.ret_type.is_pointer)
                            => ~Contains(output[j - 1], "->")
                     /\ f.name \in DOMAIN MethodLines
                            => <<output[j - 1], output[j]>> = MethodLines[f.name]

\* C15 witness: rfxQueueSubmit(RfxQueue, RfxDevice, int) was emitted as the
\* method submit of Queue.
C15_Witness ==
    /\ pc = "generated"
    /\ \E k \in 1..Len(functions) : functions[k].name = "rfxQueueSubmit"
    /\ \E j \in CallLines("rfxQueueSubmit") :
          /\ Block(j) = "impl Queue {"
          /\ output[j - 1] = "    pub fn submit(&self, d: Device, count: i32) -> u32 {"

\* C19: every function is emitted exactly once, as a method of the wrapper of
\* the handle its first parameter passes by value, and as a free function
\* when its first parameter is no such handle.
C19_EmittedOnce ==
    pc = "generated" =>
        \A k \in 1..Len(functions) :
            LET f == functions[k]
            IN /\ Cardinality(CallLines(f.name)) = 1
               /\ \A j \in CallLines(f.name) :
                     Block(j) = IF ByValueHandle(f)
                                THEN "impl " \o name_map[f.params[1].type_info.name] \o " {"
                                ELSE ""

\* C19 witness: a function taking a handle by value and one taking none were
\* generated together, the first inside a wrapper's block and the second
\* outside every block.
C19_Witness ==
    /\ pc = "generated"
    /\ \E k, m \in 1..Len(functions) :
          /\ ByValueHandle(functions[k]) /\ ~ByValueHandle(functions[m])
          /\ \E j \in CallLines(functions[k].name) : Block(j) # ""
          /\ \E j \in CallLines(functions[m].name) : Block(j) = ""

====
